---------------------------- MODULE Spec2Model ----------------------------
(***************************************************************************)
(* A model of g2h (juspay/g2h), the gRPC-to-HTTP bridge generator.         *)
(*                                                                         *)
(* The specifications of this module share its variables:                  *)
(*   SpecNaming - the naming resolver (heck's to_snake_case as the crate   *)
(*                calls it, and BridgeGenerator::resolve_enum_path)        *)
(*                applied to bounded sets of identifiers and references;   *)
(*   Spec       - a descriptor set is read, then                           *)
(*                generate_package_specific_enum_deserializer_code         *)
(*                extracts the enum field bindings of a target package and *)
(*                emits the field-specific function pairs;                 *)
(*   SpecCodec  - the run-time behaviour of the emitted serializer and     *)
(*                deserializer functions on JSON values;                   *)
(*   SpecFunctions - the codec generator applied to lists of bindings;     *)
(*   SpecConfig - a descriptor set is read, then one of the operations     *)
(*                that build a prost_build::Config is called;              *)
(*   SpecService - ServiceGenerator::generate is called for services and   *)
(*                finalize_package for their packages;                     *)
(*   SpecBuild  - a build script calls the operations on one of the        *)
(*                example descriptor sets and compiles;                    *)
(*   SpecRoute  - a router built by a generated function serves requests;  *)
(*   SpecNew    - BridgeGenerator::new is called in a build.               *)
(*                                                                         *)
(* Text is modelled as a sequence of one-character strings wherever the    *)
(* code looks inside it (case conversion, splitting, concatenation).       *)
(* Enum symbols and JSON strings are only compared for equality, so they   *)
(* are kept as atomic strings.                                             *)
(***************************************************************************)
EXTENDS Integers, Sequences, FiniteSets, TLC

VARIABLES
    n_in,            \* naming: the text handed to the naming function
    n_op,            \* naming: "idle", or the function that was applied
    n_out,           \* naming: the function's result
    fds_msgs,        \* descriptor set: messages, in declaration order
    fds_fields,      \* descriptor set: fields, in declaration order
    pc,              \* generator: "read" while the descriptors are read, then "generated"
    target_package,  \* generator: package handed to the generator
    enum_fields,     \* generator: the bindings the extractor returned
    functions,       \* generator: the functions emitted for the bindings
    binding,         \* codec: the binding whose function pair is exercised
    value,           \* codec: the in-memory value given to the serializer
    wire,            \* codec: the JSON value on the wire
    result,          \* codec: what the deserializer returned
    cpc,             \* codec: "idle", "serialized", "received", "done"
    generator,       \* build: the BridgeGenerator's enable_string_enums and file_descriptor_set
    config,          \* build: the attributes registered on the prost_build::Config
    bufs,            \* build: per package, the fragments appended to its buffer
    finalized,       \* build: the packages finalize_package was called for
    router,          \* route: the routes of the router a generated function built
    request,         \* route: the HTTP request being served
    output,          \* route: what the handler method returned
    response,        \* route: the HTTP response of the route
    rpc,             \* route: "idle", "invoked", "done"
    build_env,       \* new: the build's features and ver module, and the cargo metadata
    created,         \* new: the BridgeGenerator that BridgeGenerator::new returned
    stderr           \* new: the lines written to standard error

naming_vars == <<n_in, n_op, n_out>>
gen_vars    == <<fds_msgs, fds_fields, pc, target_package, enum_fields, functions>>
codec_vars  == <<binding, value, wire, result, cpc>>
build_vars  == <<generator, config, bufs, finalized>>
route_vars  == <<router, request, output, response, rpc>>
dep_vars    == <<build_env, created, stderr>>
vars        == <<n_in, n_op, n_out, fds_msgs, fds_fields, pc, target_package,
                 enum_fields, functions, binding, value, wire, result, cpc,
                 generator, config, bufs, finalized,
                 router, request, output, response, rpc,
                 build_env, created, stderr>>

(***************************************************************************)
(* Bounds of the model.                                                    *)
(***************************************************************************)
MaxIdentLen == 5     \* longest identifier handed to to_snake_case
MaxSegments == 4     \* most dot-separated segments of a type reference

(***************************************************************************)
(* Characters (ASCII letters, digits; everything else is punctuation).     *)
(***************************************************************************)
UpperChars ==
    <<"A", "B", "C", "D", "E", "F", "G", "H", "I", "J", "K", "L", "M",
      "N", "O", "P", "Q", "R", "S", "T", "U", "V", "W", "X", "Y", "Z">>
LowerChars ==
    <<"a", "b", "c", "d", "e", "f", "g", "h", "i", "j", "k", "l", "m",
      "n", "o", "p", "q", "r", "s", "t", "u", "v", "w", "x", "y", "z">>
DigitChars == {"0", "1", "2", "3", "4", "5", "6", "7", "8", "9"}

is_uppercase(c) == \E i \in 1..Len(UpperChars) : UpperChars[i] = c
is_lowercase(c) == \E i \in 1..Len(LowerChars) : LowerChars[i] = c
is_alphanumeric(c) == is_uppercase(c) \/ is_lowercase(c) \/ c \in DigitChars
to_lowercase(c) ==
    IF is_uppercase(c)
    THEN LowerChars[CHOOSE i \in 1..Len(UpperChars) : UpperChars[i] = c]
    ELSE c

\* str::to_lowercase on a whole word
lowercase_word(w) == [i \in 1..Len(w) |-> to_lowercase(w[i])]

\* str::contains(char)
contains(s, c) == \E i \in 1..Len(s) : s[i] = c

\* str::split(char): the segments between the separators, empty ones included
RECURSIVE split_from(_, _, _, _)
split_from(s, sep, i, cur) ==
    IF i > Len(s) THEN <<cur>>
    ELSE IF s[i] = sep THEN <<cur>> \o split_from(s, sep, i + 1, <<>>)
    ELSE split_from(s, sep, i + 1, Append(cur, s[i]))
split(s, sep) == split_from(s, sep, 1, <<>>)

\* [String]::join(sep)
RECURSIVE join(_, _)
join(parts, sep) ==
    IF Len(parts) = 0 THEN <<>>
    ELSE IF Len(parts) = 1 THEN parts[1]
    ELSE parts[1] \o sep \o join(Tail(parts), sep)

(***************************************************************************)
(* heck::ToSnakeCase, as called through `.to_snake_case()`.  The text is   *)
(* split at every non-alphanumeric character; inside each piece a word     *)
(* ends after a lowercase-mode character followed by an uppercase one, and *)
(* before the last uppercase of an uppercase run that is followed by a     *)
(* lowercase character.  The words are lowercased and joined by '_'.       *)
(***************************************************************************)
\* one word per letter: the hand-rolled converter that heck replaced
RECURSIVE split_words_per_letter(_, _, _, _, _)
split_words_per_letter(word, i, init, mode, acc) ==
    IF i > Len(word) THEN acc
    ELSE IF i = Len(word) THEN Append(acc, SubSeq(word, init, Len(word)))
    ELSE IF is_uppercase(word[i + 1])
         THEN split_words_per_letter(word, i + 1, i + 1, mode,
                                     Append(acc, SubSeq(word, init, i)))
         ELSE split_words_per_letter(word, i + 1, init, mode, acc)

RECURSIVE split_words(_, _, _, _, _)
split_words(word, i, init, mode, acc) ==
    IF i > Len(word) THEN acc
    ELSE IF i = Len(word) THEN Append(acc, SubSeq(word, init, Len(word)))
    ELSE
      LET c == word[i]
          next == word[i + 1]
          next_mode == IF is_lowercase(c) THEN "Lowercase"
                       ELSE IF is_uppercase(c) THEN "Uppercase"
                       ELSE mode
      IN  IF next_mode = "Lowercase" /\ is_uppercase(next)
          THEN split_words(word, i + 1, i + 1, "Boundary",
                           Append(acc, SubSeq(word, init, i)))
          ELSE IF mode = "Uppercase" /\ is_uppercase(c) /\ is_lowercase(next)
          THEN split_words(word, i + 1, i, "Boundary",
                           Append(acc, SubSeq(word, init, i - 1)))
          ELSE split_words(word, i + 1, init, next_mode, acc)

RECURSIVE all_words(_)
all_words(pieces) ==
    IF Len(pieces) = 0 THEN <<>>
    ELSE split_words(pieces[1], 1, 1, "Boundary", <<>>) \o all_words(Tail(pieces))

RECURSIVE split_non_alphanumeric(_, _, _)
split_non_alphanumeric(s, i, cur) ==
    IF i > Len(s) THEN <<cur>>
    ELSE IF ~is_alphanumeric(s[i])
         THEN <<cur>> \o split_non_alphanumeric(s, i + 1, <<>>)
         ELSE split_non_alphanumeric(s, i + 1, Append(cur, s[i]))

to_snake_case(s) ==
    LET words == all_words(split_non_alphanumeric(s, 1, <<>>))
    IN  join([k \in 1..Len(words) |-> lowercase_word(words[k])], <<"_">>)

(***************************************************************************)
(* BridgeGenerator::is_message_name and BridgeGenerator::resolve_enum_path *)
(***************************************************************************)
is_message_name(name) == Len(name) > 0 /\ is_uppercase(name[1])

UnknownEnum == <<"U", "n", "k", "n", "o", "w", "n", "E", "n", "u", "m">>
ModSep == <<":", ":">>

\* the loop over parts[start_idx .. len-1] that collects the message parts
RECURSIVE message_parts_from(_, _)
message_parts_from(parts, k) ==
    IF k > Len(parts) - 1 THEN <<>>
    ELSE (IF is_message_name(parts[k]) THEN <<to_snake_case(parts[k])>> ELSE <<>>)
         \o message_parts_from(parts, k + 1)

\* the resolver of g2h_internals_tests.rs: only the segment next to the enum name
resolve_enum_path_parent_only(enum_type) ==
    IF ~contains(enum_type, ".") THEN enum_type
    ELSE
      LET parts == split(enum_type, ".")
      IN  IF Len(parts) <= 1 THEN parts[Len(parts)]
          ELSE IF Len(parts) = 2 THEN parts[2]
          ELSE IF is_message_name(parts[Len(parts) - 1])
               THEN to_snake_case(parts[Len(parts) - 1]) \o ModSep \o parts[Len(parts)]
               ELSE parts[Len(parts)]

\* resolve_enum_path of g2h_internals_tests.rs (mod g2h_tests), the resolver
\* the repository's test exercises
g2h_tests_resolve_enum_path(enum_type) ==
    IF enum_type = <<>> \/ ~contains(enum_type, ".") THEN enum_type
    ELSE
      LET parts == split(enum_type, ".")
      IN  IF Len(parts) = 0 THEN UnknownEnum
          ELSE IF Len(parts) = 1 THEN parts[1]
          ELSE IF Len(parts) = 2 THEN parts[2]
          ELSE
            LET potential_parent == parts[Len(parts) - 1]
                enum_name == parts[Len(parts)]
            IN  IF is_message_name(potential_parent)
                THEN to_snake_case(potential_parent) \o ModSep \o enum_name
                ELSE enum_name

resolve_enum_path(enum_type) ==
    IF ~contains(enum_type, ".") THEN enum_type
    ELSE
      LET parts == split(enum_type, ".")
      IN  IF Len(parts) = 0 THEN UnknownEnum
          ELSE IF Len(parts) = 1 THEN parts[1]
          ELSE IF Len(parts) = 2 THEN parts[2]
          ELSE
            LET enum_name == parts[Len(parts)]
                message_parts == message_parts_from(parts, 2)
            IN  IF message_parts = <<>> THEN enum_name
                ELSE join(message_parts, ModSep) \o ModSep \o enum_name


(***************************************************************************)
(* Inputs of the naming specification.                                     *)
(***************************************************************************)
IdentAlphabet == {"A", "B", "a", "b", "1", "_"}
Idents == UNION {[1..n -> IdentAlphabet] : n \in 0..MaxIdentLen}

RefSegments == {<<>>, <<"p">>, <<"v", "2">>, <<"A">>, <<"A", "b">>, <<"A", "B">>, <<"E">>}
TypeRefs ==
    {join(segs, <<".">>) : segs \in UNION {[1..n -> RefSegments] : n \in 1..MaxSegments}}

XMLHttpRequest == <<"X", "M", "L", "H", "t", "t", "p", "R", "e", "q", "u", "e", "s", "t">>
APIKey == <<"A", "P", "I", "K", "e", "y">>
HelloReply == <<"H", "e", "l", "l", "o", "R", "e", "p", "l", "y">>
lowercase == <<"l", "o", "w", "e", "r", "c", "a", "s", "e">>
PaymentStatus == <<"P", "a", "y", "m", "e", "n", "t", "S", "t", "a", "t", "u", "s">>
pkg_PaymentStatus == <<"p", "k", "g", ".">> \o PaymentStatus
pkg_Outer_Status == <<"p", "k", "g", ".", "O", "u", "t", "e", "r", ".", "S", "t", "a", "t", "u", "s">>
pkg_Outer_Inner_Status ==
    <<"p", "k", "g", ".", "O", "u", "t", "e", "r", ".", "I", "n", "n", "e", "r", ".",
      "S", "t", "a", "t", "u", "s">>
ucs_v2_Currency == <<"u", "c", "s", ".", "v", "2", ".", "C", "u", "r", "r", "e", "n", "c", "y">>

ExampleIdents == {XMLHttpRequest, APIKey, HelloReply, lowercase, PaymentStatus}
ExampleRefs == {pkg_PaymentStatus, pkg_Outer_Status, pkg_Outer_Inner_Status, ucs_v2_Currency}
NamingInputs == Idents \cup TypeRefs \cup ExampleIdents \cup ExampleRefs

(***************************************************************************)
(* Initial values of the groups of variables.                              *)
(***************************************************************************)
\* FileDescriptorProto.package of the files of the set, in order
FilePackages == <<"p", "q", "p">>
Packages == {FilePackages[i] : i \in 1..Len(FilePackages)}

NamingIdle == n_in = <<>> /\ n_op = "idle" /\ n_out = <<>>
GenIdle ==
    /\ fds_msgs = <<>> /\ fds_fields = <<>> /\ pc = "read"
    /\ target_package = "" /\ enum_fields = <<>> /\ functions = <<>>
CodecIdle ==
    /\ binding = [enum_type |-> "none", cardinality |-> "none"]
    /\ value = [t |-> "none"] /\ wire = [t |-> "none"]
    /\ result = [t |-> "none"] /\ cpc = "idle"
BuildIdle ==
    /\ generator = [enable_string_enums |-> FALSE, file_descriptor_set |-> "None"]
    /\ config = <<>> /\ bufs = [p \in Packages |-> <<>>] /\ finalized = {}
RouteIdle ==
    /\ router = <<>> /\ request = [t |-> "none"] /\ output = [t |-> "none"]
    /\ response = [t |-> "none"] /\ rpc = "idle"
DepIdle ==
    /\ build_env = [t |-> "none"] /\ created = [t |-> "none"] /\ stderr = <<>>

(***************************************************************************)
(* SpecNaming: a naming function is applied to an input.                   *)
(***************************************************************************)
InitNaming ==
    /\ n_in \in NamingInputs /\ n_op = "idle" /\ n_out = <<>>
    /\ GenIdle /\ CodecIdle /\ BuildIdle /\ RouteIdle /\ DepIdle

ApplyToSnakeCase ==
    /\ n_op = "idle"
    /\ n_op' = "to_snake_case"
    /\ n_out' = to_snake_case(n_in)
    /\ UNCHANGED <<n_in, gen_vars, codec_vars, build_vars, route_vars, dep_vars>>

ApplyResolveEnumPath ==
    /\ n_op = "idle"
    /\ n_op' = "resolve_enum_path"
    /\ n_out' = resolve_enum_path(n_in)
    /\ UNCHANGED <<n_in, gen_vars, codec_vars, build_vars, route_vars, dep_vars>>

NextNaming == ApplyToSnakeCase \/ ApplyResolveEnumPath
SpecNaming == InitNaming /\ [][NextNaming]_vars

(***************************************************************************)
(* Reference statements of the naming rules, written over character        *)
(* positions rather than as the code computes them.                        *)
(***************************************************************************)
DotPositions(s) == {i \in 1..Len(s) : s[i] = "."}
NumSegments(s) == Cardinality(DotPositions(s)) + 1
NthDot(s, k) ==
    CHOOSE i \in DotPositions(s) : Cardinality({j \in DotPositions(s) : j < i}) = k - 1
Segment(s, k) ==
    LET first == IF k = 1 THEN 1 ELSE NthDot(s, k - 1) + 1
        last  == IF k = NumSegments(s) THEN Len(s) ELSE NthDot(s, k) - 1
    IN  SubSeq(s, first, last)
IsMessageSegment(seg) == seg # <<>> /\ \E i \in 1..Len(UpperChars) : UpperChars[i] = seg[1]

RECURSIVE ModulePrefix(_, _)
ModulePrefix(s, k) ==
    IF k >= NumSegments(s) THEN <<>>
    ELSE (IF IsMessageSegment(Segment(s, k))
          THEN to_snake_case(Segment(s, k)) \o <<":", ":">> ELSE <<>>)
         \o ModulePrefix(s, k + 1)

ReferenceResolve(s) ==
    IF DotPositions(s) = {} THEN s
    ELSE IF NumSegments(s) = 2 THEN Segment(s, 2)
    ELSE ModulePrefix(s, 2) \o Segment(s, NumSegments(s))

IsLetter(c) == is_uppercase(c) \/ is_lowercase(c)
LettersOnly(s) == \A i \in 1..Len(s) : IsLetter(s[i])
\* a word starts at position i > 1 of a letters-only identifier
WordStartsAt(s, i) ==
    /\ i > 1
    /\ is_uppercase(s[i])
    /\ \/ is_lowercase(s[i - 1])
       \/ is_uppercase(s[i - 1]) /\ i < Len(s) /\ is_lowercase(s[i + 1])
RECURSIVE ReferenceWordCase(_, _)
ReferenceWordCase(s, i) ==
    IF i > Len(s) THEN <<>>
    ELSE (IF WordStartsAt(s, i) THEN <<"_">> ELSE <<>>)
         \o <<to_lowercase(s[i])>> \o ReferenceWordCase(s, i + 1)
Without(s, c) == SelectSeq(s, LAMBDA x : x # c)
AlphanumericsLowered(s) == lowercase_word(SelectSeq(s, is_alphanumeric))

\* C9: resolve_enum_path returns, for every dotted type reference, what the
\* reference rule gives: the input itself when it has no dot, the second
\* segment when it has two, and otherwise the snake-cased message-like
\* segments strictly between the first and the last, joined by '::' and
\* followed by the last segment (the last segment alone when none qualifies).
C9_ResolveAgreesWithRule ==
    n_op = "resolve_enum_path" =>
        /\ n_out = ReferenceResolve(n_in)
        /\ (n_in = pkg_Outer_Inner_Status =>
                n_out = <<"o", "u", "t", "e", "r", ":", ":", "i", "n", "n", "e", "r",
                          ":", ":", "S", "t", "a", "t", "u", "s">>)
        /\ (n_in = ucs_v2_Currency => n_out = <<"C", "u", "r", "r", "e", "n", "c", "y">>)
        /\ (n_in = pkg_Outer_Status =>
                n_out = <<"o", "u", "t", "e", "r", ":", ":", "S", "t", "a", "t", "u", "s">>)
        /\ (n_in = pkg_PaymentStatus => n_out = PaymentStatus)
        /\ (n_in = PaymentStatus => n_out = PaymentStatus)
        /\ (n_in = <<>> => n_out = <<>>)

\* a reference with two message-like segments before the enum name was resolved
C9_Witness ==
    /\ n_op = "resolve_enum_path"
    /\ n_in = <<"p", ".", "A", "b", ".", "A", "B", ".", "E">>
    /\ n_out = <<"a", "b", ":", ":", "a", "b", ":", ":", "E">>

\* C10: to_word_case lowers every letter, never leaves an uppercase letter,
\* and puts '_' exactly where a word starts: at an uppercase letter after a
\* lowercase one, and at the last letter of an uppercase run that is
\* followed by a lowercase letter.
C10_WordCase ==
    n_op = "to_snake_case" =>
        /\ \A i \in 1..Len(n_out) : ~is_uppercase(n_out[i])
        /\ Without(n_out, "_") = AlphanumericsLowered(n_in)
        /\ (LettersOnly(n_in) => n_out = ReferenceWordCase(n_in, 1))
        /\ (n_in = XMLHttpRequest =>
                n_out = <<"x", "m", "l", "_", "h", "t", "t", "p", "_",
                          "r", "e", "q", "u", "e", "s", "t">>)
        /\ (n_in = APIKey => n_out = <<"a", "p", "i", "_", "k", "e", "y">>)
        /\ (n_in = <<"A", "B">> => n_out = <<"a", "b">>)
        /\ (n_in = HelloReply =>
                n_out = <<"h", "e", "l", "l", "o", "_", "r", "e", "p", "l", "y">>)
        /\ (n_in = <<"A">> => n_out = <<"a">>)
        /\ (n_in = lowercase => n_out = lowercase)
        /\ (n_in = <<>> => n_out = <<>>)

\* an acronym followed by a capitalised word was converted
C10_Witness ==
    /\ n_op = "to_snake_case"
    /\ n_in = XMLHttpRequest
    /\ n_out = <<"x", "m", "l", "_", "h", "t", "t", "p", "_",
                 "r", "e", "q", "u", "e", "s", "t">>


(***************************************************************************)
(* SpecCodec: the functions emitted by generate_single_enum_functions,     *)
(* generate_option_enum_functions and generate_repeated_enum_functions,    *)
(* run on values.  A binding here is the enum type the pair was generated  *)
(* for and its cardinality.                                                *)
(***************************************************************************)
MaxRepeated == 2     \* longest sequence given to a Repeated pair

\* the range of i32 (every integer of the model is an i32)
MaxI32 == 2147483647
MinI32 == (-MaxI32) - 1

\* The enums of the example descriptor set, as prost generates them:
\* value -> symbolic name.  Several enums declare the same values.
EnumDecls ==
    [PaymentStatus |->
        (0 :> "SUCCESS" @@ 1 :> "PENDING" @@ 2 :> "FAILED" @@ 21 :> "BAD_REQUEST_ERROR"),
     AuthenticationStatus |->
        (0 :> "AUTHENTICATION_SUCCESS" @@ 1 :> "AUTHENTICATION_PENDING"
         @@ 2 :> "AUTHENTICATION_FAILED"),
     ProcessingStatus |->
        (0 :> "COMPLETED" @@ 1 :> "PROCESSING" @@ 2 :> "ERROR")]
EnumTypes == DOMAIN EnumDecls
\* declaration order of the enums, as a try-every-enum scan would visit them
EnumOrder == <<"PaymentStatus", "AuthenticationStatus", "ProcessingStatus">>
SymbolsOf(E) == {EnumDecls[E][v] : v \in DOMAIN EnumDecls[E]}
AllSymbols == UNION {SymbolsOf(E) : E \in EnumTypes}

\* E::try_from(i32) succeeds, E::as_str_name, E::from_str_name
try_from_ok(E, v) == v \in DOMAIN EnumDecls[E]
as_str_name(E, v) == EnumDecls[E][v]
from_str_name_ok(E, s) == \E v \in DOMAIN EnumDecls[E] : EnumDecls[E][v] = s
from_str_name(E, s) == CHOOSE v \in DOMAIN EnumDecls[E] : EnumDecls[E][v] = s

\* JSON values
JString(s) == [t |-> "string", s |-> s]
JNumber(i) == [t |-> "number", i |-> i]
JNull == [t |-> "null"]
JArray(items) == [t |-> "array", items |-> items]
\* a JSON value that is neither a string, an i32, null nor an array: true
JBool == [t |-> "bool", b |-> TRUE]

\* Rust values and results
I32(v) == [t |-> "i32", v |-> v]
Some(v) == [t |-> "Some", v |-> v]
None == [t |-> "None"]
Vec(items) == [t |-> "Vec", items |-> items]
Ok(v) == [t |-> "Ok", v |-> v]
Err(msg) == [t |-> "Err", msg |-> msg]

\* format!("Unknown enum value for {}: {}", stringify!(#enum_ident), s)
unknown_enum_value(E, s) == Err(<<"Unknown enum value for ", E, ": ", s>>)
\* serde's error when no variant of the untagged enum `name` matches.  The
\* texts are those of a deserializer over a parsed value; one that reads
\* JSON text (serde_json::from_str) appends the position, " at line 1
\* column N", which the values here do not carry.
no_variant_matched(name) ==
    Err(<<"data did not match any variant of untagged enum ", name>>)
\* the grave accent, U+0060, that serde writes around a number or a boolean;
\* a TLA+ string cannot hold the character, so it is written as its escape
grave == "\\x60"
\* bool's Display
bool_to_string(b) == IF b THEN "true" ELSE "false"
\* serde::de::Unexpected, as Display writes what was found
unexpected(json) ==
    IF json.t = "string" THEN <<"string \"", json.s, "\"">>
    ELSE IF json.t = "number" THEN <<"integer ", grave, ToString(json.i), grave>>
    ELSE IF json.t = "null" THEN <<"null">>
    ELSE <<"boolean ", grave, bool_to_string(json.b), grave>>
\* serde's error when Vec::deserialize is given a value that is no array
invalid_type(json) ==
    Err(<<"invalid type: ">> \o unexpected(json) \o <<", expected a sequence">>)

\* i32::to_string
i32_to_string(v) == ToString(v)

\* the try_serialize_all_enums scan: first enum, in declaration order, that has v
RECURSIVE first_enum_declaring(_, _)
first_enum_declaring(v, k) ==
    IF k > Len(EnumOrder) THEN "none"
    ELSE IF try_from_ok(EnumOrder[k], v) THEN EnumOrder[k]
    ELSE first_enum_declaring(v, k + 1)

\* generic serializer: the name of whichever enum declares the value first
serialize_enum_as_string(E, v) ==
    IF first_enum_declaring(v, 1) # "none"
    THEN JString(as_str_name(first_enum_declaring(v, 1), v))
    ELSE JNumber(v)

\* serialize_<field_id>_as_string
serialize_single(E, v) ==
    IF try_from_ok(E, v) THEN JString(as_str_name(E, v)) ELSE JNumber(v)

\* an Option serializer that writes an undeclared value as text, as the
\* Repeated serializer does
serialize_option_as_text(E, ov) ==
    IF ov.t = "Some"
    THEN JString(IF try_from_ok(E, ov.v) THEN as_str_name(E, ov.v)
                 ELSE i32_to_string(ov.v))
    ELSE JNull

\* serialize_option_<field_id>_as_string
serialize_option(E, ov) ==
    IF ov.t = "Some"
    THEN (IF try_from_ok(E, ov.v) THEN JString(as_str_name(E, ov.v)) ELSE JNumber(ov.v))
    ELSE JNull

\* serialize_repeated_<field_id>_as_string
serialize_repeated(E, values) ==
    JArray([k \in 1..Len(values) |->
              JString(IF try_from_ok(E, values[k]) THEN as_str_name(E, values[k])
                      ELSE i32_to_string(values[k]))])

\* #[serde(untagged)] enum { String(String), Int(i32) }: variants tried in order
untagged(json) ==
    IF json.t = "string" THEN [t |-> "String", s |-> json.s]
    ELSE IF json.t = "number" THEN [t |-> "Int", i |-> json.i]
    ELSE [t |-> "NoMatch"]

\* a deserializer that takes an unknown name for the default value
deserialize_single_lenient(E, json) ==
    LET x == untagged(json)
    IN  IF x.t = "String"
        THEN (IF from_str_name_ok(E, x.s) THEN Ok(I32(from_str_name(E, x.s)))
              ELSE Ok(I32(0)))
        ELSE IF x.t = "Int" THEN Ok(I32(x.i))
        ELSE no_variant_matched("EnumOrString")

\* deserialize_<field_id>_from_string
deserialize_single(E, json) ==
    LET x == untagged(json)
    IN  IF x.t = "String"
        THEN (IF from_str_name_ok(E, x.s) THEN Ok(I32(from_str_name(E, x.s)))
              ELSE unknown_enum_value(E, x.s))
        ELSE IF x.t = "Int" THEN Ok(I32(x.i))
        ELSE no_variant_matched("EnumOrString")

\* an Option deserializer without the Option:: wrapper: null matches no variant
deserialize_option_null_is_error(E, json) ==
    LET x == untagged(json)
    IN  IF x.t = "String"
        THEN (IF from_str_name_ok(E, x.s) THEN Ok(Some(from_str_name(E, x.s)))
              ELSE unknown_enum_value(E, x.s))
        ELSE IF x.t = "Int" THEN Ok(Some(x.i))
        ELSE no_variant_matched("OptionalEnumOrString")

\* deserialize_option_<field_id>_from_string
deserialize_option(E, json) ==
    IF json.t = "null" THEN Ok(None)
    ELSE
      LET x == untagged(json)
      IN  IF x.t = "String"
          THEN (IF from_str_name_ok(E, x.s) THEN Ok(Some(from_str_name(E, x.s)))
                ELSE unknown_enum_value(E, x.s))
          ELSE IF x.t = "Int" THEN Ok(Some(x.i))
          ELSE no_variant_matched("OptionalEnumOrString")

\* a loop that drops the element it cannot resolve and goes on
RECURSIVE deserialize_items_skipping(_, _, _, _)
deserialize_items_skipping(E, items, k, acc) ==
    IF k > Len(items) THEN Ok(Vec(acc))
    ELSE IF items[k].t = "String"
         THEN (IF from_str_name_ok(E, items[k].s)
               THEN deserialize_items_skipping(E, items, k + 1,
                                               Append(acc, from_str_name(E, items[k].s)))
               ELSE deserialize_items_skipping(E, items, k + 1, acc))
         ELSE deserialize_items_skipping(E, items, k + 1, Append(acc, items[k].i))

\* the loop of deserialize_repeated_<field_id>_from_string over the items
RECURSIVE deserialize_items(_, _, _, _)
deserialize_items(E, items, k, acc) ==
    IF k > Len(items) THEN Ok(Vec(acc))
    ELSE IF items[k].t = "String"
         THEN (IF from_str_name_ok(E, items[k].s)
               THEN deserialize_items(E, items, k + 1,
                                      Append(acc, from_str_name(E, items[k].s)))
               ELSE unknown_enum_value(E, items[k].s))
         ELSE deserialize_items(E, items, k + 1, Append(acc, items[k].i))

\* deserialize_repeated_<field_id>_from_string
deserialize_repeated(E, json) ==
    IF json.t # "array" THEN invalid_type(json)
    ELSE
      LET items == [k \in 1..Len(json.items) |-> untagged(json.items[k])]
      IN  IF \E k \in 1..Len(items) : items[k].t = "NoMatch" THEN no_variant_matched("EnumOrStringItem")
          ELSE deserialize_items(E, items, 1, <<>>)

\* Inputs
Cardinalities == {"Single", "Option", "Repeated"}
ValueSample == {MinI32, -1, 0, 1, 2, 3, 21, MaxI32}
ValueSeqs == UNION {[1..n -> ValueSample] : n \in 0..MaxRepeated}
ClientStrings == AllSymbols \cup {"BOGUS", "1", ""}
ClientScalars ==
    {JString(s) : s \in ClientStrings}
    \cup {JNumber(i) : i \in ValueSample}
    \cup {JNull, JBool}
ClientItems ==
    {JString("PENDING"), JString("AUTHENTICATION_PENDING"), JString("BOGUS"),
     JNumber(1), JNumber(3), JBool}
ClientArrays == {JArray(items) : items \in UNION {[1..n -> ClientItems] : n \in 0..MaxRepeated}}

InitCodec == CodecIdle /\ NamingIdle /\ GenIdle /\ BuildIdle /\ RouteIdle /\ DepIdle

SerializeSingle(E, v) ==
    /\ cpc = "idle"
    /\ binding' = [enum_type |-> E, cardinality |-> "Single"]
    /\ value' = I32(v)
    /\ wire' = serialize_single(E, v)
    /\ cpc' = "serialized"
    /\ UNCHANGED <<result, naming_vars, gen_vars, build_vars, route_vars, dep_vars>>

SerializeOption(E, ov) ==
    /\ cpc = "idle"
    /\ binding' = [enum_type |-> E, cardinality |-> "Option"]
    /\ value' = ov
    /\ wire' = serialize_option(E, ov)
    /\ cpc' = "serialized"
    /\ UNCHANGED <<result, naming_vars, gen_vars, build_vars, route_vars, dep_vars>>

SerializeRepeated(E, values) ==
    /\ cpc = "idle"
    /\ binding' = [enum_type |-> E, cardinality |-> "Repeated"]
    /\ value' = Vec(values)
    /\ wire' = serialize_repeated(E, values)
    /\ cpc' = "serialized"
    /\ UNCHANGED <<result, naming_vars, gen_vars, build_vars, route_vars, dep_vars>>

\* a request body arrives for a field of the binding
Receive(E, card, json) ==
    /\ cpc = "idle"
    /\ binding' = [enum_type |-> E, cardinality |-> card]
    /\ wire' = json
    /\ cpc' = "received"
    /\ UNCHANGED <<value, result, naming_vars, gen_vars, build_vars, route_vars, dep_vars>>

DeserializeSingle ==
    /\ cpc \in {"serialized", "received"}
    /\ binding.cardinality = "Single"
    /\ result' = deserialize_single(binding.enum_type, wire)
    /\ cpc' = "done"
    /\ UNCHANGED <<binding, value, wire, naming_vars, gen_vars, build_vars, route_vars, dep_vars>>

DeserializeOption ==
    /\ cpc \in {"serialized", "received"}
    /\ binding.cardinality = "Option"
    /\ result' = deserialize_option(binding.enum_type, wire)
    /\ cpc' = "done"
    /\ UNCHANGED <<binding, value, wire, naming_vars, gen_vars, build_vars, route_vars, dep_vars>>

DeserializeRepeated ==
    /\ cpc \in {"serialized", "received"}
    /\ binding.cardinality = "Repeated"
    /\ result' = deserialize_repeated(binding.enum_type, wire)
    /\ cpc' = "done"
    /\ UNCHANGED <<binding, value, wire, naming_vars, gen_vars, build_vars, route_vars, dep_vars>>

NextCodec ==
    \/ \E E \in EnumTypes, v \in ValueSample : SerializeSingle(E, v)
    \/ \E E \in EnumTypes, ov \in {None} \cup {Some(v) : v \in ValueSample} :
          SerializeOption(E, ov)
    \/ \E E \in EnumTypes, values \in ValueSeqs : SerializeRepeated(E, values)
    \/ \E E \in EnumTypes, card \in Cardinalities, json \in ClientScalars \cup ClientArrays :
          Receive(E, card, json)
    \/ DeserializeSingle
    \/ DeserializeOption
    \/ DeserializeRepeated
SpecCodec == InitCodec /\ [][NextCodec]_vars


(***************************************************************************)
(* Claims about the emitted codec functions (SpecCodec).                   *)
(***************************************************************************)
BoundEnum == binding.enum_type
OtherSymbols(E) == UNION {SymbolsOf(F) : F \in EnumTypes \ {E}}
\* what a scalar serializer may emit for v under enum E
EmitsOwnNameOrInteger(E, v, json) ==
    /\ json.t \in {"string", "number"}
    /\ json.t = "string" => v \in DOMAIN EnumDecls[E] /\ json.s = EnumDecls[E][v]
    /\ json.t = "number" => v \notin DOMAIN EnumDecls[E] /\ json.i = v

\* C1: the serializer of a field bound to enum E emits, for v, the symbolic
\* name E declares for v or, when E declares none, the integer v itself, for
\* a scalar value and for every element of a repeated one; it never emits a
\* symbolic name of another enum.
C1_OwnNameOrInteger ==
    cpc \in {"serialized"} =>
        /\ binding.cardinality = "Single" => EmitsOwnNameOrInteger(BoundEnum, value.v, wire)
        /\ binding.cardinality = "Option" /\ value.t = "Some" =>
               EmitsOwnNameOrInteger(BoundEnum, value.v, wire)
        /\ binding.cardinality = "Repeated" =>
               /\ Len(wire.items) = Len(value.items)
               /\ \A k \in 1..Len(wire.items) :
                      /\ EmitsOwnNameOrInteger(BoundEnum, value.items[k], wire.items[k])
                      /\ wire.items[k].t = "string" =>
                             wire.items[k].s \notin OtherSymbols(BoundEnum)
        /\ wire.t = "string" => wire.s \notin OtherSymbols(BoundEnum)

\* C2: for Single and Option bindings, deserializing what the binding's
\* serializer emitted for a value gives that value back, whether or not the
\* enum declares it; an absent Option value comes back absent.
C2_RoundTripScalar ==
    (cpc = "done" /\ value.t # "none" /\ binding.cardinality \in {"Single", "Option"}) =>
        result = Ok(value)

\* an undeclared value made the round trip through an Option pair
C2_Witness ==
    /\ cpc = "done"
    /\ binding = [enum_type |-> "ProcessingStatus", cardinality |-> "Option"]
    /\ value = Some(21)
    /\ wire = JNumber(21)
    /\ result = Ok(Some(21))

\* C3: for Repeated bindings, deserializing what the repeated serializer
\* emitted for a sequence succeeds and gives the same sequence.
C3_RoundTripRepeated ==
    (cpc = "done" /\ value.t # "none" /\ binding.cardinality = "Repeated") =>
        result = Ok(value)

\* C4: a Single or Option deserializer answers a string that is no symbol of
\* the bound enum with an error naming the enum and the string, and returns
\* an integer input unchanged.
C4_UnknownStringIsError ==
    (cpc = "done" /\ binding.cardinality \in {"Single", "Option"}) =>
        /\ (wire.t = "string" /\ wire.s \notin SymbolsOf(BoundEnum)) =>
               /\ result.t = "Err"
               /\ \E i \in 1..Len(result.msg) : result.msg[i] = BoundEnum
               /\ \E i \in 1..Len(result.msg) : result.msg[i] = wire.s
        /\ wire.t = "number" =>
               result = Ok(IF binding.cardinality = "Single"
                           THEN I32(wire.i) ELSE Some(wire.i))

\* a symbol of another enum was sent to an AuthenticationStatus field and refused
C4_Witness ==
    /\ cpc = "done"
    /\ binding = [enum_type |-> "AuthenticationStatus", cardinality |-> "Single"]
    /\ wire = JString("PENDING")
    /\ result = Err(<<"Unknown enum value for ", "AuthenticationStatus", ": ", "PENDING">>)

\* what a scalar deserializer of enum E makes of a string or a number
ResolvesTo(E, json, v) ==
    \/ json.t = "string" /\ v \in DOMAIN EnumDecls[E] /\ EnumDecls[E][v] = json.s
    \/ json.t = "number" /\ v = json.i
Resolves(E, json) ==
    \/ json.t = "string" /\ json.s \in SymbolsOf(E)
    \/ json.t = "number"
UnknownName(E, json) == json.t = "string" /\ json.s \notin SymbolsOf(E)

\* C18: an Option serializer writes null for an absent value and, for a
\* present one, the bound enum's name if it declares the value and the raw
\* integer otherwise; an Option deserializer takes null to absent without
\* error, a declared name to its value, an integer to itself, and refuses a
\* name the bound enum does not declare.
C18_OptionThreadsAbsence ==
    binding.cardinality = "Option" =>
        /\ (cpc \in {"serialized", "done"} /\ value.t = "None") => wire = JNull
        /\ (cpc \in {"serialized", "done"} /\ value.t = "Some") =>
               EmitsOwnNameOrInteger(BoundEnum, value.v, wire)
        /\ cpc = "done" =>
               /\ wire = JNull => result = Ok(None)
               /\ Resolves(BoundEnum, wire) =>
                      /\ result.t = "Ok" /\ result.v.t = "Some"
                      /\ ResolvesTo(BoundEnum, wire, result.v.v)
               /\ UnknownName(BoundEnum, wire) => result.t = "Err"

\* an absent value went out as null and came back absent
C18_Witness ==
    /\ cpc = "done"
    /\ binding = [enum_type |-> "PaymentStatus", cardinality |-> "Option"]
    /\ value = None
    /\ wire = JNull
    /\ result = Ok(None)

\* C19: if any element of the input of a Repeated deserializer is a string the
\* bound enum does not declare, the call returns an error and no sequence; if
\* every element resolves, the result has the input's length and order.
C19_RepeatedFailFast ==
    (cpc = "done" /\ binding.cardinality = "Repeated" /\ wire.t = "array") =>
        /\ (\E k \in 1..Len(wire.items) : UnknownName(BoundEnum, wire.items[k])) =>
               result.t = "Err"
        /\ (\A k \in 1..Len(wire.items) : Resolves(BoundEnum, wire.items[k])) =>
               /\ result.t = "Ok" /\ result.v.t = "Vec"
               /\ Len(result.v.items) = Len(wire.items)
               /\ \A k \in 1..Len(wire.items) :
                      ResolvesTo(BoundEnum, wire.items[k], result.v.items[k])

\* a resolvable element followed by an unknown name: the call failed as a whole
C19_Witness ==
    /\ cpc = "done"
    /\ binding = [enum_type |-> "PaymentStatus", cardinality |-> "Repeated"]
    /\ wire = JArray(<<JNumber(1), JString("BOGUS")>>)
    /\ result = Err(<<"Unknown enum value for ", "PaymentStatus", ": ", "BOGUS">>)


(***************************************************************************)
(* Spec: the descriptor set and the enum field extractor.                  *)
(*                                                                         *)
(* The descriptor set is kept flat.  fds_msgs[m] is a DescriptorProto:     *)
(* its name, its parent (0 for an entry of file.message_type, else the     *)
(* index of the message whose nested_type holds it) and, for a top-level   *)
(* message, the index of its file.  fds_fields[f] is a FieldDescriptorProto*)
(* with the index of the message whose `field` list holds it.  Order of    *)
(* declaration is order of index.                                          *)
(***************************************************************************)
MaxMsgs == 2         \* most messages in the descriptor set
MaxFields == 2       \* most fields in the descriptor set

MessageNames == {<<"A">>, <<"B">>}
\* The enums of a descriptor set: the first file declares the enum E
\* (FileDescriptorProto.enum_type), every message declares the nested enum F
\* (DescriptorProto.enum_type).
FileEnumTypes == <<{<<"E">>}, {}, {}>>
MessageEnumTypes == {<<"F">>}

\* the fully-qualified name of message m, with its leading dot
RECURSIVE full_name(_, _)
full_name(msgs, m) ==
    IF msgs[m].parent = 0
    THEN <<".", FilePackages[msgs[m].file], ".">> \o msgs[m].name
    ELSE full_name(msgs, msgs[m].parent) \o <<".">> \o msgs[m].name

\* the fields a message may declare: name, type, label, proto3_optional and,
\* for an enum field, the enum it refers to: the enum of the first file
\* ("file") or the enum nested in the field's own message ("own")
FieldDecls ==
    {[name |-> <<"x">>, type |-> "Enum", label |-> "Optional",
      proto3_optional |-> FALSE, refers |-> "file"],
     [name |-> <<"x">>, type |-> "Enum", label |-> "Optional",
      proto3_optional |-> TRUE, refers |-> "own"],
     [name |-> <<"b", "_", "x">>, type |-> "Enum", label |-> "Repeated",
      proto3_optional |-> FALSE, refers |-> "file"],
     [name |-> <<"b", "_", "x">>, type |-> "Enum", label |-> "Required",
      proto3_optional |-> FALSE, refers |-> "own"],
     [name |-> <<"x">>, type |-> "String", label |-> "Optional",
      proto3_optional |-> FALSE, refers |-> "none"],
     [name |-> <<"b", "_", "x">>, type |-> "Message", label |-> "Optional",
      proto3_optional |-> FALSE, refers |-> "self"]}

\* FieldDescriptorProto.type_name as protoc writes it: the fully-qualified
\* name of the type a field of message m refers to
type_name_of(decl, msgs, m) ==
    CASE decl.refers = "file" -> <<".", FilePackages[1], ".", "E">>
      [] decl.refers = "own"  -> full_name(msgs, m) \o <<".", "F">>
      [] decl.refers = "self" -> full_name(msgs, m)
      [] OTHER -> <<>>

\* the FieldDescriptorProto of a field declared in message m
field_descriptor(decl, msgs, m) ==
    [msg |-> m, name |-> decl.name, type |-> decl.type,
     label |-> decl.label, proto3_optional |-> decl.proto3_optional,
     type_name |-> type_name_of(decl, msgs, m)]

\* str::trim_start_matches(char)
RECURSIVE trim_start_matches(_, _)
trim_start_matches(s, c) ==
    IF Len(s) > 0 /\ s[1] = c THEN trim_start_matches(Tail(s), c) ELSE s

\* the match on field.label() and field.proto3_optional() in the extractor
field_label_ignoring_flag(label, proto3_optional) ==
    IF label = "Repeated" THEN "Repeated" ELSE "Single"

field_label_of(label, proto3_optional) ==
    IF label = "Optional" THEN (IF proto3_optional THEN "Option" ELSE "Single")
    ELSE IF label = "Required" THEN "Single"
    ELSE "Repeated"

\* the loop over message.field: one binding per field of type Enum.  `src`
\* is not part of the code's tuple: it records which field a binding was
\* pushed for.
RECURSIVE bindings_of_fields(_, _, _, _)
bindings_of_fields(fields, m, current_path, f) ==
    IF f > Len(fields) THEN <<>>
    ELSE (IF fields[f].msg = m /\ fields[f].type = "Enum"
          THEN <<[field_id |-> current_path \o <<"_">> \o to_snake_case(fields[f].name),
                  enum_path |-> resolve_enum_path(
                                    trim_start_matches(fields[f].type_name, ".")),
                  field_label |-> field_label_of(fields[f].label,
                                                 fields[f].proto3_optional),
                  src |-> f]>>
          ELSE <<>>)
         \o bindings_of_fields(fields, m, current_path, f + 1)

RECURSIVE extract_enum_fields_from_message_with_path_static(_, _, _, _)
RECURSIVE extract_nested_types(_, _, _, _, _)

\* an extractor that stops at the top-level messages
extract_top_level_only(msgs, fields, m, current_path, k) == <<>>

\* the loop over message.nested_type
extract_nested_types(msgs, fields, m, current_path, k) ==
    IF k > Len(msgs) THEN <<>>
    ELSE (IF msgs[k].parent = m
          THEN extract_enum_fields_from_message_with_path_static(
                   msgs, fields, k, current_path)
          ELSE <<>>)
         \o extract_nested_types(msgs, fields, m, current_path, k + 1)

extract_enum_fields_from_message_with_path_static(msgs, fields, m, message_path) ==
    LET current_path ==
            IF message_path = <<>> THEN to_snake_case(msgs[m].name)
            ELSE message_path \o <<"_">> \o to_snake_case(msgs[m].name)
    IN  bindings_of_fields(fields, m, current_path, 1)
        \o extract_nested_types(msgs, fields, m, current_path, 1)

extract_enum_fields_from_message_static(msgs, fields, m) ==
    extract_enum_fields_from_message_with_path_static(msgs, fields, m, <<>>)

\* the loop over file.message_type of one file
RECURSIVE extract_file(_, _, _, _)
extract_file(msgs, fields, file, k) ==
    IF k > Len(msgs) THEN <<>>
    ELSE (IF msgs[k].parent = 0 /\ msgs[k].file = file
          THEN extract_enum_fields_from_message_static(msgs, fields, k)
          ELSE <<>>)
         \o extract_file(msgs, fields, file, k + 1)

\* the loop over file_descriptor_set.file
RECURSIVE extract_files(_, _, _, _)
extract_files(msgs, fields, target, file) ==
    IF file > Len(FilePackages) THEN <<>>
    ELSE (IF FilePackages[file] # target THEN <<>>
          ELSE extract_file(msgs, fields, file, 1))
         \o extract_files(msgs, fields, target, file + 1)

extract_package_enum_fields_static(msgs, fields, target) ==
    extract_files(msgs, fields, target, 1)


(***************************************************************************)
(* The codec generator: one function pair per binding.  An emitted         *)
(* function is recorded by its name, its role, the enum path its body      *)
(* names and the cardinality of the body.                                  *)
(***************************************************************************)
emitted_pair(serialize_fn, deserialize_fn, enum_ident, cardinality) ==
    <<[name |-> serialize_fn, role |-> "serialize",
       enum_ident |-> enum_ident, cardinality |-> cardinality],
      [name |-> deserialize_fn, role |-> "deserialize",
       enum_ident |-> enum_ident, cardinality |-> cardinality]>>

\* format_ident!("serialize_{}_as_string", ..) and format_ident!("deserialize_{}_from_string", ..)
serialize_ident(infix, field_id) ==
    <<"s", "e", "r", "i", "a", "l", "i", "z", "e", "_">> \o infix \o field_id
    \o <<"_", "a", "s", "_", "s", "t", "r", "i", "n", "g">>
deserialize_ident(infix, field_id) ==
    <<"d", "e", "s", "e", "r", "i", "a", "l", "i", "z", "e", "_">> \o infix \o field_id
    \o <<"_", "f", "r", "o", "m", "_", "s", "t", "r", "i", "n", "g">>

generate_single_enum_functions(field_id, enum_ident) ==
    emitted_pair(serialize_ident(<<>>, field_id), deserialize_ident(<<>>, field_id),
                 enum_ident, "Single")

\* an Option pair that is given the names of the Single pair
generate_option_enum_functions_unprefixed(field_id, enum_ident) ==
    emitted_pair(serialize_ident(<<>>, field_id), deserialize_ident(<<>>, field_id),
                 enum_ident, "Option")

generate_option_enum_functions(field_id, enum_ident) ==
    emitted_pair(serialize_ident(<<"o", "p", "t", "i", "o", "n", "_">>, field_id),
                 deserialize_ident(<<"o", "p", "t", "i", "o", "n", "_">>, field_id),
                 enum_ident, "Option")

generate_repeated_enum_functions(field_id, enum_ident) ==
    emitted_pair(serialize_ident(<<"r", "e", "p", "e", "a", "t", "e", "d", "_">>, field_id),
                 deserialize_ident(<<"r", "e", "p", "e", "a", "t", "e", "d", "_">>, field_id),
                 enum_ident, "Repeated")

RECURSIVE generate_field_specific_enum_functions_static(_)
generate_field_specific_enum_functions_static(bindings) ==
    IF Len(bindings) = 0 THEN <<>>
    ELSE
      LET b == bindings[1]
          function_code ==
              IF b.field_label = "Single"
              THEN generate_single_enum_functions(b.field_id, b.enum_path)
              ELSE IF b.field_label = "Option"
              THEN generate_option_enum_functions(b.field_id, b.enum_path)
              ELSE IF b.field_label = "Repeated"
              THEN generate_repeated_enum_functions(b.field_id, b.enum_path)
              ELSE <<>>
      IN  function_code \o generate_field_specific_enum_functions_static(Tail(bindings))

(***************************************************************************)
(* EnumConfig: the attributes registered on the prost_build::Config.  A    *)
(* registration is the path and the attribute handed to type_attribute or  *)
(* field_attribute.  `src` is not part of the call: it records the field   *)
(* the call was made for (0 when it was made for no field).                *)
(***************************************************************************)
registration(kind, path, attr, serialize_with, deserialize_with, default, src) ==
    [kind |-> kind, path |-> path, attr |-> attr, serialize_with |-> serialize_with,
     deserialize_with |-> deserialize_with, default |-> default, src |-> src]

\* config.type_attribute(".", "#[derive(serde::Serialize, serde::Deserialize)]")
derive_serde == registration("type", <<".">>, "derive_serde", <<>>, <<>>, FALSE, 0)
\* #[serde(skip_serializing_if = "Option::is_none")] and "String::is_empty"
SKIP_NONE == "skip_serializing_if_Option_is_none"
SKIP_EMPTY == "skip_serializing_if_String_is_empty"

\* format!("{}.{}", message_name, field.name())
field_path(message_name, field_name) == message_name \o <<".">> \o field_name

\* the choice of skip_attribute in add_skip_null_attribute_static
skip_attribute(field) ==
    IF field.proto3_optional \/ (field.label = "Optional" /\ field.type = "Message")
    THEN SKIP_NONE
    ELSE IF field.type = "String" /\ field.label # "Repeated" THEN SKIP_EMPTY
    ELSE "none"

add_skip_null_attribute_static(cfg, message_name, fields, f) ==
    IF skip_attribute(fields[f]) # "none"
    THEN Append(cfg, registration("field", field_path(message_name, fields[f].name),
                                  skip_attribute(fields[f]), <<>>, <<>>, FALSE, f))
    ELSE cfg

\* The loops of the two traversals thread the configuration through their
\* steps.  TLC passes an argument unevaluated, so each loop starts with the
\* test Len(cfg) >= 0, which is true and makes TLC evaluate the attributes
\* registered so far before the loop takes its next step.

\* the loop over message.field in process_message_skip_nulls_recursive
RECURSIVE skip_nulls_of_fields(_, _, _, _, _)
skip_nulls_of_fields(cfg, msgs, fields, m, f) ==
    IF Len(cfg) >= 0 /\ f > Len(fields) THEN cfg
    ELSE skip_nulls_of_fields(
             IF fields[f].msg = m
             THEN add_skip_null_attribute_static(cfg, msgs[m].name, fields, f)
             ELSE cfg,
             msgs, fields, m, f + 1)

RECURSIVE process_message_skip_nulls_recursive(_, _, _, _)
RECURSIVE skip_nulls_of_nested(_, _, _, _, _)
\* the loop over message.nested_type
skip_nulls_of_nested(cfg, msgs, fields, m, k) ==
    IF Len(cfg) >= 0 /\ k > Len(msgs) THEN cfg
    ELSE skip_nulls_of_nested(
             IF msgs[k].parent = m
             THEN process_message_skip_nulls_recursive(cfg, msgs, fields, k)
             ELSE cfg,
             msgs, fields, m, k + 1)

process_message_skip_nulls_recursive(cfg, msgs, fields, m) ==
    skip_nulls_of_nested(skip_nulls_of_fields(cfg, msgs, fields, m, 1),
                         msgs, fields, m, 1)

\* the loops over file_descriptor_set.file and file.message_type
RECURSIVE skip_nulls_of_files(_, _, _, _, _)
skip_nulls_of_files(cfg, msgs, fields, file, k) ==
    IF Len(cfg) >= 0 /\ file > Len(FilePackages) THEN cfg
    ELSE IF k > Len(msgs) THEN skip_nulls_of_files(cfg, msgs, fields, file + 1, 1)
    ELSE skip_nulls_of_files(
             IF msgs[k].parent = 0 /\ msgs[k].file = file
             THEN process_message_skip_nulls_recursive(cfg, msgs, fields, k)
             ELSE cfg,
             msgs, fields, file, k + 1)

add_skip_nulls_support_static(cfg, msgs, fields) ==
    skip_nulls_of_files(cfg, msgs, fields, 1, 1)

\* "enum_deserializer" or "super::enum_deserializer"
enum_deserializer_path(is_nested) ==
    IF is_nested THEN <<"super">> \o ModSep \o <<"enum_deserializer">>
    ELSE <<"enum_deserializer">>

\* the serde attribute chosen by the match on the field's label
serde_attribute(field, path, field_id, src) ==
    LET module == enum_deserializer_path(path.is_nested) \o ModSep
        option_ == <<"o", "p", "t", "i", "o", "n", "_">>
        repeated_ == <<"r", "e", "p", "e", "a", "t", "e", "d", "_">>
        infix == IF field.label = "Optional"
                 THEN (IF field.proto3_optional THEN option_ ELSE <<>>)
                 ELSE IF field.label = "Required" THEN <<>>
                 ELSE repeated_
    IN  registration("field", field_path(path.message_name, field.name), "enum_codec",
                     module \o serialize_ident(infix, field_id),
                     module \o deserialize_ident(infix, field_id),
                     field.label # "Required", src)

add_enum_deserializer_with_path_static(cfg, message_path, message_name, fields, f, is_nested) ==
    Append(cfg, serde_attribute(fields[f],
                                [message_name |-> message_name, is_nested |-> is_nested],
                                message_path \o <<"_">> \o to_snake_case(fields[f].name), f))

is_enum_field_static(field) == field.type = "Enum"

\* the loop over message.field in process_message_descriptor_with_path_static
RECURSIVE enum_attributes_of_fields(_, _, _, _, _, _, _)
enum_attributes_of_fields(cfg, msgs, fields, m, current_path, is_nested, f) ==
    IF Len(cfg) >= 0 /\ f > Len(fields) THEN cfg
    ELSE enum_attributes_of_fields(
             IF fields[f].msg = m /\ is_enum_field_static(fields[f])
             THEN add_enum_deserializer_with_path_static(
                      cfg, current_path, msgs[m].name, fields, f, is_nested)
             ELSE cfg,
             msgs, fields, m, current_path, is_nested, f + 1)

RECURSIVE process_message_descriptor_with_path_static(_, _, _, _, _)
RECURSIVE enum_attributes_of_nested(_, _, _, _, _, _)
enum_attributes_of_nested(cfg, msgs, fields, m, current_path, k) ==
    IF Len(cfg) >= 0 /\ k > Len(msgs) THEN cfg
    ELSE enum_attributes_of_nested(
             IF msgs[k].parent = m
             THEN process_message_descriptor_with_path_static(
                      cfg, msgs, fields, k, current_path)
             ELSE cfg,
             msgs, fields, m, current_path, k + 1)

process_message_descriptor_with_path_static(cfg, msgs, fields, m, message_path) ==
    LET current_path ==
            IF message_path = <<>> THEN to_snake_case(msgs[m].name)
            ELSE message_path \o <<"_">> \o to_snake_case(msgs[m].name)
        is_nested == message_path # <<>>
    IN  enum_attributes_of_nested(
            enum_attributes_of_fields(cfg, msgs, fields, m, current_path, is_nested, 1),
            msgs, fields, m, current_path, 1)

\* add_enum_string_support_static, process_file_descriptor_static and
\* process_message_descriptor_static: every top-level message of every file
RECURSIVE enum_attributes_of_files(_, _, _, _, _)
enum_attributes_of_files(cfg, msgs, fields, file, k) ==
    IF Len(cfg) >= 0 /\ file > Len(FilePackages) THEN cfg
    ELSE IF k > Len(msgs) THEN enum_attributes_of_files(cfg, msgs, fields, file + 1, 1)
    ELSE enum_attributes_of_files(
             IF msgs[k].parent = 0 /\ msgs[k].file = file
             THEN process_message_descriptor_with_path_static(cfg, msgs, fields, k, <<>>)
             ELSE cfg,
             msgs, fields, file, k + 1)

add_enum_string_support_static(cfg, msgs, fields) ==
    enum_attributes_of_files(cfg, msgs, fields, 1, 1)

\* BridgeGenerator::build_prost_config
build_prost_config(enable_string_enums) == <<derive_serde>>

\* EnumConfig::build_prost_config_with_descriptors
build_prost_config_with_descriptors(enable_string_enums, msgs, fields) ==
    LET base == build_prost_config(enable_string_enums)
        with_enums == IF enable_string_enums
                      THEN add_enum_string_support_static(base, msgs, fields)
                      ELSE base
    IN  add_skip_nulls_support_static(with_enums, msgs, fields)

\* a compile_protos that takes the descriptor path whatever the option
compile_protos_always_with_descriptors(enable_string_enums, msgs, fields) ==
    build_prost_config_with_descriptors(enable_string_enums, msgs, fields)

\* BridgeGenerator::compile_protos: the configuration handed to prost_build
compile_protos(enable_string_enums, msgs, fields) ==
    IF ~enable_string_enums THEN build_prost_config(enable_string_enums)
    ELSE build_prost_config_with_descriptors(enable_string_enums, msgs, fields)

\* BridgeGenerator::compile_protos_with_config: the configuration handed to
\* prost_build, built on the caller's
compile_protos_with_config(enable_string_enums, user_config, msgs, fields) ==
    LET base == Append(user_config, derive_serde)
    IN  IF ~enable_string_enums THEN base
        ELSE add_skip_nulls_support_static(
                 add_enum_string_support_static(base, msgs, fields), msgs, fields)

\* prost_build's matching of a registered path against a field: a path with
\* no leading dot matches when it is the fully-qualified name of the field, or
\* what follows one of the dots of that name
path_matches(path, msgs, fields, f) ==
    LET fq == field_path(full_name(msgs, fields[f].msg), fields[f].name)
    IN  \E i \in 1..Len(fq) : fq[i] = "." /\ SubSeq(fq, i + 1, Len(fq)) = path

\* the field attributes of the configuration that prost_build puts on field f
field_attributes(cfg, msgs, fields, f) ==
    {cfg[i].attr : i \in {j \in 1..Len(cfg) :
                            cfg[j].kind = "field" /\ path_matches(cfg[j].path, msgs, fields, f)}}

\* what a caller may have registered before compile_protos_with_config
UserConfigs ==
    {<<registration("field", <<"A", ".", "t">>, "user_attribute", <<>>, <<>>, FALSE, 0)>>}

(***************************************************************************)
(* The ServiceGenerator callbacks of BridgeGenerator.  A buffer is the     *)
(* sequence of the fragments appended to it.  A service is a               *)
(* prost_build::Service: package, proto_name, name (the Rust name) and     *)
(* methods, each a prost_build::Method with proto_name, name (the Rust     *)
(* name) and input_type.                                                   *)
(***************************************************************************)
MaxServices == 2     \* most services handed to generate in one run

Services ==
    <<[package |-> "p",
       proto_name |-> <<"G", "r", "e", "e", "t", "e", "r">>,
       name |-> <<"G", "r", "e", "e", "t", "e", "r">>,
       methods |->
           <<[proto_name |-> <<"S", "a", "y", "H", "i">>,
              name |-> <<"s", "a", "y", "_", "h", "i">>, input_type |-> "HiRequest"],
             [proto_name |-> <<"S", "a", "y", "B", "y", "e">>,
              name |-> <<"s", "a", "y", "_", "b", "y", "e">>, input_type |-> "ByeRequest"]>>],
      [package |-> "p",
       proto_name |-> <<"P", "a", "y", "A", "P", "I">>,
       name |-> <<"P", "a", "y", "A", "p", "i">>,
       methods |->
           <<[proto_name |-> <<"P", "a", "y">>,
              name |-> <<"p", "a", "y">>, input_type |-> "PayRequest"]>>],
      [package |-> "q",
       proto_name |-> <<"G", "r", "e", "e", "t", "e", "r">>,
       name |-> <<"G", "r", "e", "e", "t", "e", "r">>,
       methods |-> <<>>]>>

\* what the inner generator appends in a callback: none of this generator's fragments
inner(callback) == <<[kind |-> "inner", callback |-> callback]>>

\* format!("/{package}.{name}/{}", method.proto_name) with the Rust method name
branch_name_of_rust_name(service, method) ==
    <<"/", service.package, ".">> \o service.proto_name \o <<"/">> \o method.name

\* format!("/{package}.{name}/{}", method.proto_name)
branch_name(service, method) ==
    <<"/", service.package, ".">> \o service.proto_name \o <<"/">> \o method.proto_name

\* the `router.route(#branch_names, ::axum::routing::post(..))` repetition
routes_of(service) ==
    [i \in 1..Len(service.methods) |->
        [path |-> branch_name(service, service.methods[i]),
         method_filter |-> "POST",
         func_name |-> service.methods[i].name,
         branch_request |-> service.methods[i].input_type]]

\* the router function of a service; `src` is not part of the output: it
\* records the entry of Services the function was generated for
router_function(service, src) ==
    [kind |-> "router",
     service_name |-> to_snake_case(service.name)
                      \o <<"_", "h", "a", "n", "d", "l", "e", "r">>,
     server_module |-> to_snake_case(service.name)
                       \o <<"_", "s", "e", "r", "v", "e", "r">>,
     ident_func_name |-> service.name,
     routes |-> routes_of(service),
     src |-> src]

\* the two structs of the JSON error envelope
error_structs ==
    [kind |-> "error_structs", types |-> <<"ErrorResponse", "ErrorDetails">>]

\* a generate that emits the envelope types with every router function
generate_with_error_structs(buf, service, src) ==
    buf \o inner("generate") \o <<router_function(service, src), error_structs>>

\* ServiceGenerator::generate
generate(buf, service, src) ==
    buf \o inner("generate") \o <<router_function(service, src)>>

\* a module builder that emits the generic codec, one pair per cardinality,
\* whatever the fields are
generate_generic_enum_deserializer_code(msgs, fields, target_package_) ==
    <<[kind |-> "enum_deserializer",
       functions |->
           generate_single_enum_functions(<<"e", "n", "u", "m">>, <<>>)
           \o generate_option_enum_functions(<<"e", "n", "u", "m">>, <<>>)
           \o generate_repeated_enum_functions(<<"e", "n", "u", "m">>, <<>>)]>>

\* a module builder that takes the enum fields of every package
generate_enum_deserializer_code_of_all_packages(msgs, fields, target_package_) ==
    LET package_enum_fields ==
            extract_package_enum_fields_static(msgs, fields, "p")
            \o extract_package_enum_fields_static(msgs, fields, "q")
    IN  IF package_enum_fields = <<>> THEN <<>>
        ELSE <<[kind |-> "enum_deserializer",
                functions |->
                    generate_field_specific_enum_functions_static(package_enum_fields)]>>

\* generate_package_specific_enum_deserializer_code: the empty string, or
\* the enum_deserializer module with the functions in it
generate_package_specific_enum_deserializer_code(msgs, fields, target_package_) ==
    LET package_enum_fields ==
            extract_package_enum_fields_static(msgs, fields, target_package_)
    IN  IF package_enum_fields = <<>> THEN <<>>
        ELSE <<[kind |-> "enum_deserializer",
                functions |->
                    generate_field_specific_enum_functions_static(package_enum_fields)]>>

\* ServiceGenerator::finalize_package
finalize_package(gen, msgs, fields, package, buf) ==
    buf \o inner("finalize_package") \o <<error_structs>>
    \o (IF gen.enable_string_enums /\ gen.file_descriptor_set = "Some"
        THEN generate_package_specific_enum_deserializer_code(msgs, fields, package)
        ELSE <<>>)

\* the generate calls prost_build makes for the services of a package
RECURSIVE generate_services(_, _, _)
generate_services(buf, package, src) ==
    IF src > Len(Services) THEN buf
    ELSE generate_services(IF Services[src].package = package
                           THEN generate(buf, Services[src], src) ELSE buf,
                           package, src + 1)

\* config.compile_protos(protos, includes): prost_build runs the service
\* generator the config holds; per package, what the generator appended
service_buffers ==
    [package \in Packages |-> generate_services(<<>>, package, 1) \o inner("finalize")]
prost_build_compile(gen, msgs, fields) ==
    [package \in Packages |->
        finalize_package(gen, msgs, fields, package, service_buffers[package])]

(***************************************************************************)
(* Spec: descriptors are read, then the package's codec module is built.   *)
(***************************************************************************)
Init == GenIdle /\ NamingIdle /\ CodecIdle /\ BuildIdle /\ RouteIdle /\ DepIdle

\* protoc accepts a message only if no sibling has its name: siblings are the
\* nested types of one message, or the top-level messages of one package
AddMessage(name, parent, file) ==
    /\ pc = "read"
    /\ Len(fds_msgs) < MaxMsgs
    /\ parent \in 0..Len(fds_msgs)
    /\ file \in 1..Len(FilePackages)
    /\ parent # 0 => file = fds_msgs[parent].file
    /\ \A k \in 1..Len(fds_msgs) :
          (/\ fds_msgs[k].name = name
           /\ (fds_msgs[k].parent = 0) = (parent = 0)
           /\ parent # 0 => fds_msgs[k].parent = parent)
          => FilePackages[fds_msgs[k].file] # FilePackages[file]
    /\ fds_msgs' = Append(fds_msgs, [name |-> name, parent |-> parent, file |-> file])
    /\ UNCHANGED <<fds_fields, pc, target_package, enum_fields, functions,
                   naming_vars, codec_vars, build_vars, route_vars, dep_vars>>

\* a field of the message declared last; protoc accepts it only if the
\* message has no field of that name
AddField(decl) ==
    /\ pc = "read"
    /\ Len(fds_msgs) > 0
    /\ Len(fds_fields) < MaxFields
    /\ \A f \in 1..Len(fds_fields) :
          fds_fields[f].msg = Len(fds_msgs) => fds_fields[f].name # decl.name
    /\ fds_fields' = Append(fds_fields, field_descriptor(decl, fds_msgs, Len(fds_msgs)))
    /\ UNCHANGED <<fds_msgs, pc, target_package, enum_fields, functions,
                   naming_vars, codec_vars, build_vars, route_vars, dep_vars>>

\* generate_package_specific_enum_deserializer_code(file_descriptor_set, target)
GeneratePackageCode(target) ==
    /\ pc = "read"
    /\ target_package' = target
    /\ enum_fields' = extract_package_enum_fields_static(fds_msgs, fds_fields, target)
    /\ functions' = generate_field_specific_enum_functions_static(enum_fields')
    /\ pc' = "generated"
    /\ UNCHANGED <<fds_msgs, fds_fields, naming_vars, codec_vars, build_vars, route_vars, dep_vars>>

Next ==
    \/ \E name \in MessageNames, parent \in 0..MaxMsgs, file \in 1..Len(FilePackages) :
          AddMessage(name, parent, file)
    \/ \E decl \in FieldDecls : AddField(decl)
    \/ \E target \in Packages : GeneratePackageCode(target)
Spec == Init /\ [][Next]_vars

(***************************************************************************)
(* SpecConfig: descriptors are read, then one of the public operations     *)
(* that build the prost_build::Config is called on a generator made by     *)
(* with_tonic_build(), followed by with_string_enums() when                *)
(* enable_string_enums is TRUE.  pc names the operation that returned.     *)
(***************************************************************************)
BuildProstConfig(enable_string_enums) ==
    /\ pc = "read"
    /\ generator' = [enable_string_enums |-> enable_string_enums,
                     file_descriptor_set |-> "None"]
    /\ config' = build_prost_config(enable_string_enums)
    /\ pc' = "build_prost_config"
    /\ UNCHANGED <<fds_msgs, fds_fields, target_package, enum_fields, functions,
                   bufs, finalized, naming_vars, codec_vars, route_vars, dep_vars>>

CompileProtos(enable_string_enums) ==
    /\ pc = "read"
    /\ generator' = [enable_string_enums |-> enable_string_enums,
                     file_descriptor_set |->
                         IF enable_string_enums THEN "Some" ELSE "None"]
    /\ config' = compile_protos(enable_string_enums, fds_msgs, fds_fields)
    /\ bufs' = prost_build_compile(generator', fds_msgs, fds_fields)
    /\ finalized' = Packages
    /\ pc' = "compile_protos"
    /\ UNCHANGED <<fds_msgs, fds_fields, target_package, enum_fields, functions,
                   naming_vars, codec_vars, route_vars, dep_vars>>

CompileProtosWithConfig(enable_string_enums, user_config) ==
    /\ pc = "read"
    /\ generator' = [enable_string_enums |-> enable_string_enums,
                     file_descriptor_set |->
                         IF enable_string_enums THEN "Some" ELSE "None"]
    /\ config' = compile_protos_with_config(enable_string_enums, user_config,
                                            fds_msgs, fds_fields)
    /\ bufs' = prost_build_compile(generator', fds_msgs, fds_fields)
    /\ finalized' = Packages
    /\ pc' = "compile_protos_with_config"
    /\ UNCHANGED <<fds_msgs, fds_fields, target_package, enum_fields, functions,
                   naming_vars, codec_vars, route_vars, dep_vars>>

\* EnumConfig::new(generator).build_prost_config_with_descriptors(&fds)
BuildProstConfigWithDescriptors(enable_string_enums) ==
    /\ pc = "read"
    /\ generator' = [enable_string_enums |-> enable_string_enums,
                     file_descriptor_set |-> "None"]
    /\ config' = build_prost_config_with_descriptors(enable_string_enums,
                                                     fds_msgs, fds_fields)
    /\ pc' = "build_prost_config_with_descriptors"
    /\ UNCHANGED <<fds_msgs, fds_fields, target_package, enum_fields, functions,
                   bufs, finalized, naming_vars, codec_vars, route_vars, dep_vars>>

NextConfig ==
    \/ \E name \in MessageNames, parent \in 0..MaxMsgs, file \in 1..Len(FilePackages) :
          AddMessage(name, parent, file)
    \/ \E decl \in FieldDecls : AddField(decl)
    \/ \E enable_string_enums \in BOOLEAN : BuildProstConfig(enable_string_enums)
    \/ \E enable_string_enums \in BOOLEAN : CompileProtos(enable_string_enums)
    \/ \E enable_string_enums \in BOOLEAN, user_config \in UserConfigs :
          CompileProtosWithConfig(enable_string_enums, user_config)
    \/ \E enable_string_enums \in BOOLEAN :
          BuildProstConfigWithDescriptors(enable_string_enums)
SpecConfig == Init /\ [][NextConfig]_vars

(***************************************************************************)
(* SpecService: prost_build runs the service generator over a descriptor   *)
(* set: generate for services, then finalize_package for the packages.     *)
(* The generator is as with_tonic_build() left it, as with_string_enums()  *)
(* left it, or as compile_protos left it (with the descriptor set stored). *)
(***************************************************************************)
Generators ==
    {[enable_string_enums |-> FALSE, file_descriptor_set |-> "None"],
     [enable_string_enums |-> TRUE, file_descriptor_set |-> "None"],
     [enable_string_enums |-> TRUE, file_descriptor_set |-> "Some"]}

\* package p: message A { optional F x; message B { repeated p.E b_x; } }
\* package q: message A { string x; }
NestedMessages ==
    <<[name |-> <<"A">>, parent |-> 0, file |-> 1],
      [name |-> <<"B">>, parent |-> 1, file |-> 1],
      [name |-> <<"A">>, parent |-> 0, file |-> 2]>>
NestedFields ==
    <<field_descriptor([name |-> <<"x">>, type |-> "Enum", label |-> "Optional",
                        proto3_optional |-> TRUE, refers |-> "own"], NestedMessages, 1),
      field_descriptor([name |-> <<"b", "_", "x">>, type |-> "Enum", label |-> "Repeated",
                        proto3_optional |-> FALSE, refers |-> "file"], NestedMessages, 2),
      field_descriptor([name |-> <<"x">>, type |-> "String", label |-> "Optional",
                        proto3_optional |-> FALSE, refers |-> "none"], NestedMessages, 3)>>
\* package p, first file: message A { p.E x; }
\* package q: message B { q.B.F x; B b_x; }
\* package p, third file: message B { required F b_x; }
SpreadMessages ==
    <<[name |-> <<"A">>, parent |-> 0, file |-> 1],
      [name |-> <<"B">>, parent |-> 0, file |-> 2],
      [name |-> <<"B">>, parent |-> 0, file |-> 3]>>
SpreadFields ==
    <<field_descriptor([name |-> <<"x">>, type |-> "Enum", label |-> "Optional",
                        proto3_optional |-> FALSE, refers |-> "file"], SpreadMessages, 1),
      field_descriptor([name |-> <<"x">>, type |-> "Enum", label |-> "Optional",
                        proto3_optional |-> FALSE, refers |-> "own"], SpreadMessages, 2),
      field_descriptor([name |-> <<"b", "_", "x">>, type |-> "Message", label |-> "Optional",
                        proto3_optional |-> FALSE, refers |-> "self"], SpreadMessages, 2),
      field_descriptor([name |-> <<"b", "_", "x">>, type |-> "Enum", label |-> "Required",
                        proto3_optional |-> FALSE, refers |-> "own"], SpreadMessages, 3)>>
\* package p: message Option { p.E enum; }
KeywordMessages ==
    <<[name |-> <<"O", "p", "t", "i", "o", "n">>, parent |-> 0, file |-> 1]>>
KeywordFields ==
    <<field_descriptor([name |-> <<"e", "n", "u", "m">>, type |-> "Enum", label |-> "Optional",
                        proto3_optional |-> FALSE, refers |-> "file"], KeywordMessages, 1)>>
\* package p: message A { message B { p.E x; message C { optional F x; } } }
DeepMessages ==
    <<[name |-> <<"A">>, parent |-> 0, file |-> 1],
      [name |-> <<"B">>, parent |-> 1, file |-> 1],
      [name |-> <<"C">>, parent |-> 2, file |-> 1]>>
DeepFields ==
    <<field_descriptor([name |-> <<"x">>, type |-> "Enum", label |-> "Optional",
                        proto3_optional |-> FALSE, refers |-> "file"], DeepMessages, 2),
      field_descriptor([name |-> <<"x">>, type |-> "Enum", label |-> "Optional",
                        proto3_optional |-> TRUE, refers |-> "own"], DeepMessages, 3)>>
\* package p: message a { F x; }
LowerMessages ==
    <<[name |-> <<"a">>, parent |-> 0, file |-> 1]>>
LowerFields ==
    <<field_descriptor([name |-> <<"x">>, type |-> "Enum", label |-> "Optional",
                        proto3_optional |-> FALSE, refers |-> "own"], LowerMessages, 1)>>
\* package p: message A { required F b_x; message B { p.E x; } }
JoinedMessages ==
    <<[name |-> <<"A">>, parent |-> 0, file |-> 1],
      [name |-> <<"B">>, parent |-> 1, file |-> 1]>>
JoinedFields ==
    <<field_descriptor([name |-> <<"b", "_", "x">>, type |-> "Enum", label |-> "Required",
                        proto3_optional |-> FALSE, refers |-> "own"], JoinedMessages, 1),
      field_descriptor([name |-> <<"x">>, type |-> "Enum", label |-> "Optional",
                        proto3_optional |-> FALSE, refers |-> "file"], JoinedMessages, 2)>>
ExampleDescriptorSets ==
    {[msgs |-> <<>>, fields |-> <<>>],
     [msgs |-> NestedMessages, fields |-> NestedFields],
     [msgs |-> SpreadMessages, fields |-> SpreadFields],
     [msgs |-> KeywordMessages, fields |-> KeywordFields],
     [msgs |-> DeepMessages, fields |-> DeepFields],
     [msgs |-> LowerMessages, fields |-> LowerFields],
     [msgs |-> JoinedMessages, fields |-> JoinedFields]}

InitService ==
    /\ \E fds \in ExampleDescriptorSets : fds_msgs = fds.msgs /\ fds_fields = fds.fields
    /\ pc = "read" /\ target_package = "" /\ enum_fields = <<>> /\ functions = <<>>
    /\ generator \in Generators
    /\ config = <<>> /\ bufs = [p \in Packages |-> <<>>] /\ finalized = {}
    /\ NamingIdle /\ CodecIdle /\ RouteIdle /\ DepIdle

\* the entries of Services a router function was generated for
GeneratedServices ==
    UNION {{bufs[p][i].src : i \in {j \in 1..Len(bufs[p]) : bufs[p][j].kind = "router"}} :
              p \in Packages}

\* prost_build hands each service once, with the buffer of its package,
\* before it finalizes that package
Generate(src) ==
    /\ pc \in {"read", "compile"}
    /\ src \notin GeneratedServices
    /\ Cardinality(GeneratedServices) < MaxServices
    /\ Services[src].package \notin finalized
    /\ bufs' = [bufs EXCEPT ![Services[src].package] = generate(@, Services[src], src)]
    /\ pc' = "compile"
    /\ UNCHANGED <<fds_msgs, fds_fields, target_package, enum_fields, functions,
                   generator, config, finalized, naming_vars, codec_vars, route_vars, dep_vars>>

\* ServiceGenerator::finalize: the inner generator's alone
Finalize(package) ==
    /\ pc = "compile"
    /\ package \notin finalized
    /\ bufs[package] # <<>>
    /\ bufs[package][Len(bufs[package])].kind = "router"
    /\ bufs' = [bufs EXCEPT ![package] = @ \o inner("finalize")]
    /\ UNCHANGED <<fds_msgs, fds_fields, pc, target_package, enum_fields, functions,
                   generator, config, finalized, naming_vars, codec_vars, route_vars, dep_vars>>

FinalizePackage(package) ==
    /\ pc \in {"read", "compile"}
    /\ package \notin finalized
    /\ bufs' = [bufs EXCEPT ![package] =
                    finalize_package(generator, fds_msgs, fds_fields, package, @)]
    /\ finalized' = finalized \cup {package}
    /\ pc' = "compile"
    /\ UNCHANGED <<fds_msgs, fds_fields, target_package, enum_fields, functions,
                   generator, config, naming_vars, codec_vars, route_vars, dep_vars>>

NextService ==
    \/ \E src \in 1..Len(Services) : Generate(src)
    \/ \E package \in Packages : Finalize(package)
    \/ \E package \in Packages : FinalizePackage(package)
SpecService == InitService /\ [][NextService]_vars

(***************************************************************************)
(* SpecBuild: a build script over one of the example descriptor sets.  It  *)
(* calls one of the operations that build the configuration; the two that  *)
(* return the prost_build::Config leave the compile to the script.  Or it  *)
(* asks for the codec module of a package.                                 *)
(***************************************************************************)
InitBuild ==
    /\ \E fds \in ExampleDescriptorSets : fds_msgs = fds.msgs /\ fds_fields = fds.fields
    /\ pc = "read" /\ target_package = "" /\ enum_fields = <<>> /\ functions = <<>>
    /\ NamingIdle /\ CodecIdle /\ BuildIdle /\ RouteIdle /\ DepIdle

\* `.compile_protos(protos, includes)` on the prost_build::Config that
\* build_prost_config or build_prost_config_with_descriptors returned
ConfigCompileProtos ==
    /\ pc \in {"build_prost_config", "build_prost_config_with_descriptors"}
    /\ finalized = {}
    /\ bufs' = prost_build_compile(generator, fds_msgs, fds_fields)
    /\ finalized' = Packages
    /\ UNCHANGED <<fds_msgs, fds_fields, pc, target_package, enum_fields, functions,
                   generator, config, naming_vars, codec_vars, route_vars, dep_vars>>

NextBuild ==
    \/ \E enable_string_enums \in BOOLEAN : BuildProstConfig(enable_string_enums)
    \/ \E enable_string_enums \in BOOLEAN : CompileProtos(enable_string_enums)
    \/ \E enable_string_enums \in BOOLEAN, user_config \in UserConfigs :
          CompileProtosWithConfig(enable_string_enums, user_config)
    \/ \E enable_string_enums \in BOOLEAN :
          BuildProstConfigWithDescriptors(enable_string_enums)
    \/ ConfigCompileProtos
    \/ \E target \in Packages : GeneratePackageCode(target)
SpecBuild == InitBuild /\ [][NextBuild]_vars

(***************************************************************************)
(* SpecRoute: the router a generated function built serves requests.  The  *)
(* closure of a route turns what the handler method returned, a            *)
(* Result<tonic::Response, tonic::Status>, into an HTTP response.          *)
(***************************************************************************)
\* tonic::Code
Codes ==
    {"Ok", "Cancelled", "Unknown", "InvalidArgument", "DeadlineExceeded", "NotFound",
     "AlreadyExists", "PermissionDenied", "ResourceExhausted", "FailedPrecondition",
     "Aborted", "OutOfRange", "Unimplemented", "Internal", "Unavailable", "DataLoss",
     "Unauthenticated"}

\* a table that leaves the second code of each `|` pattern to the default
status_code_first_alternative_only(code) ==
    CASE code = "Ok" -> 200
      [] code = "InvalidArgument" -> 400
      [] code = "NotFound" -> 404
      [] code = "AlreadyExists" -> 409
      [] code = "PermissionDenied" -> 403
      [] code = "Unauthenticated" -> 401
      [] code = "ResourceExhausted" -> 429
      [] code = "FailedPrecondition" -> 412
      [] code = "Unimplemented" -> 501
      [] code = "Unavailable" -> 503
      [] code = "DeadlineExceeded" -> 408
      [] code = "OutOfRange" -> 416
      [] OTHER -> 500

\* `let code = match status.code() { .. }`, the ::http::StatusCode by its number
status_code(code) ==
    CASE code = "Ok" -> 200
      [] code = "InvalidArgument" -> 400
      [] code = "NotFound" -> 404
      [] code \in {"AlreadyExists", "Aborted"} -> 409
      [] code = "PermissionDenied" -> 403
      [] code = "Unauthenticated" -> 401
      [] code = "ResourceExhausted" -> 429
      [] code = "FailedPrecondition" -> 412
      [] code = "Unimplemented" -> 501
      [] code = "Unavailable" -> 503
      [] code \in {"DeadlineExceeded", "Cancelled"} -> 408
      [] code = "OutOfRange" -> 416
      [] OTHER -> 500

\* status.code().to_string(): tonic writes a Code as its description
code_to_string(code) ==
    CASE code = "Ok" -> "The operation completed successfully"
      [] code = "Cancelled" -> "The operation was cancelled"
      [] code = "Unknown" -> "Unknown error"
      [] code = "InvalidArgument" -> "Client specified an invalid argument"
      [] code = "DeadlineExceeded" -> "Deadline expired before operation could complete"
      [] code = "NotFound" -> "Some requested entity was not found"
      [] code = "AlreadyExists" -> "Some entity that we attempted to create already exists"
      [] code = "PermissionDenied" ->
             "The caller does not have permission to execute the specified operation"
      [] code = "ResourceExhausted" -> "Some resource has been exhausted"
      [] code = "FailedPrecondition" ->
             "The system is not in a state required for the operation's execution"
      [] code = "Aborted" -> "The operation was aborted"
      [] code = "OutOfRange" -> "Operation was attempted past the valid range"
      [] code = "Unimplemented" -> "Operation is not implemented or not supported"
      [] code = "Internal" -> "Internal error"
      [] code = "Unavailable" -> "The service is currently unavailable"
      [] code = "DataLoss" -> "Unrecoverable data loss or corruption"
      [] code = "Unauthenticated" ->
             "The request does not have valid authentication credentials"

\* an HTTP response: how it came about, its status, headers and body
http_response(t, status, headers, body) ==
    [t |-> t, status |-> status, headers |-> headers, body |-> body]

\* ErrorResponse { error: ErrorDetails { code, message } } as JSON
error_body(code, message) ==
    [t |-> "json", v |-> [error |-> [code |-> code, message |-> message]]]

\* a route that answers a failure as tonic would over gRPC: a status and no body
respond_without_envelope(out) ==
    IF out.t = "Ok"
    THEN http_response("route", 200, out.response.metadata,
                       [t |-> "json", v |-> out.response.body])
    ELSE http_response("route", status_code(out.status.code), <<>>, [t |-> "empty"])

\* the `match output { Ok(response) => .., Err(status) => .. }` of a route
respond(out) ==
    IF out.t = "Ok"
    THEN http_response("route", 200, out.response.metadata,
                       [t |-> "json", v |-> out.response.body])
    ELSE http_response("route", status_code(out.status.code), <<>>,
                       error_body(code_to_string(out.status.code), out.status.message))

\* what axum answers without calling the closure: no route has the path, the
\* route does not take the method, or the Json extractor rejects the body
route_index(routes, path) ==
    IF \E i \in 1..Len(routes) : routes[i].path = path
    THEN CHOOSE i \in 1..Len(routes) : routes[i].path = path
    ELSE 0

\* Inputs
HttpMethods == {"POST", "GET"}
RequestPaths ==
    UNION {{routes_of(Services[s])[i].path : i \in 1..Len(Services[s].methods)} :
              s \in 1..Len(Services)}
    \cup {<<"/", "p", ".", "G", "r", "e", "e", "t", "e", "r", "/", "s", "a", "y", "_", "h", "i">>}
RequestBodies == {"valid", "malformed"}
Messages == {"", "receipt must be unique"}
HandlerOutputs ==
    {[t |-> "Ok", response |-> [metadata |-> md, body |-> "reply"]] :
        md \in {<<>>, <<"x-trace">>}}
    \cup {[t |-> "Err", status |-> [code |-> c, message |-> m]] : c \in Codes, m \in Messages}

InitRoute ==
    /\ router \in {routes_of(Services[s]) : s \in 1..Len(Services)}
    /\ request = [t |-> "none"] /\ output = [t |-> "none"]
    /\ response = [t |-> "none"] /\ rpc = "idle"
    /\ NamingIdle /\ GenIdle /\ CodecIdle /\ DepIdle
    /\ generator = [enable_string_enums |-> FALSE, file_descriptor_set |-> "None"]
    /\ config = <<>> /\ bufs = [p \in Packages |-> <<>>] /\ finalized = {}

\* a request arrives; axum answers it itself, or extracts the body and calls
\* the handler method of the route
Request(method, path, body) ==
    /\ rpc = "idle"
    /\ request' = [t |-> "request", method |-> method, path |-> path, body |-> body]
    /\ IF route_index(router, path) = 0
       THEN response' = http_response("axum", 404, <<>>, [t |-> "empty"]) /\ rpc' = "done"
       ELSE IF method # router[route_index(router, path)].method_filter
       THEN response' = http_response("axum", 405, <<>>, [t |-> "empty"]) /\ rpc' = "done"
       ELSE IF body # "valid"
       THEN response' = http_response("axum", 400, <<>>, [t |-> "rejection"]) /\ rpc' = "done"
       ELSE response' = response /\ rpc' = "invoked"
    /\ UNCHANGED <<router, output, naming_vars, gen_vars, codec_vars, build_vars, dep_vars>>

\* the handler method returns and the route answers
HandlerReturns(out) ==
    /\ rpc = "invoked"
    /\ output' = out
    /\ response' = respond(out)
    /\ rpc' = "done"
    /\ UNCHANGED <<router, request, naming_vars, gen_vars, codec_vars, build_vars, dep_vars>>

NextRoute ==
    \/ \E method \in HttpMethods, path \in RequestPaths, body \in RequestBodies :
          Request(method, path, body)
    \/ \E out \in HandlerOutputs : HandlerReturns(out)
SpecRoute == InitRoute /\ [][NextRoute]_vars

(***************************************************************************)
(* SpecNew: BridgeGenerator::new in a build.  With the `validate` feature  *)
(* it checks the versions of axum, tonic and http in the cargo metadata    *)
(* against the crate's ver module before it makes the generator.           *)
(***************************************************************************)
\* the characters of version texts, in ASCII order
VersionChars == <<"+", "-", ".", "0", "1", "2", "3", "4", "5", "6", "7", "8", "9", "c", "r", "x">>
char_order(c) == CHOOSE i \in 1..Len(VersionChars) : VersionChars[i] = c
digit_value(c) == char_order(c) - 4

\* position of the first `c` in text, 0 when there is none
RECURSIVE find_char(_, _, _)
find_char(text, c, i) ==
    IF i > Len(text) THEN 0
    ELSE IF text[i] = c THEN i
    ELSE find_char(text, c, i + 1)

\* a numeric identifier: digits, no leading zero
RECURSIVE number_of(_, _)
number_of(text, acc) ==
    IF text = <<>> THEN acc ELSE number_of(Tail(text), acc * 10 + digit_value(Head(text)))
numeric_identifier(text) ==
    IF \/ text = <<>>
       \/ \E i \in 1..Len(text) : text[i] \notin DigitChars
       \/ (Len(text) > 1 /\ text[1] = "0")
    THEN [ok |-> FALSE, v |-> 0]
    ELSE [ok |-> TRUE, v |-> number_of(text, 0)]

\* text.split('.'): the identifiers of a pre-release or of build metadata
RECURSIVE identifiers(_)
identifiers(text) ==
    LET dot == find_char(text, ".", 1)
    IN  IF dot = 0 THEN <<text>>
        ELSE <<SubSeq(text, 1, dot - 1)>> \o identifiers(SubSeq(text, dot + 1, Len(text)))
is_ascii_digit(identifier) == \A i \in 1..Len(identifier) : identifier[i] \in DigitChars
\* a pre-release: identifiers of letters, digits and '-', none empty, and no
\* leading zero in one that is all digits
prerelease_ok(text) ==
    \A k \in 1..Len(identifiers(text)) :
        LET identifier == identifiers(text)[k]
        IN  /\ identifier # <<>>
            /\ ~(is_ascii_digit(identifier) /\ Len(identifier) > 1 /\ identifier[1] = "0")
\* build metadata: identifiers of letters, digits and '-', none empty; a
\* second '+' is an unexpected character
build_metadata_ok(text) ==
    \A k \in 1..Len(identifiers(text)) :
        LET identifier == identifiers(text)[k]
        IN  /\ identifier # <<>>
            /\ "+" \notin {identifier[i] : i \in 1..Len(identifier)}

semver_error == [ok |-> FALSE, version |-> [major |-> 0, minor |-> 0, patch |-> 0,
                                             pre |-> <<>>, build |-> <<>>]]

\* semver::Version::parse: MAJOR.MINOR.PATCH, then -PRE, then +BUILD
Version_parse(text) ==
    LET plus == find_char(text, "+", 1)
        left == IF plus = 0 THEN text ELSE SubSeq(text, 1, plus - 1)
        build == IF plus = 0 THEN <<>> ELSE SubSeq(text, plus + 1, Len(text))
        dash == find_char(left, "-", 1)
        core == IF dash = 0 THEN left ELSE SubSeq(left, 1, dash - 1)
        pre == IF dash = 0 THEN <<>> ELSE SubSeq(left, dash + 1, Len(left))
        dot1 == find_char(core, ".", 1)
        rest == SubSeq(core, dot1 + 1, Len(core))
        dot2 == find_char(rest, ".", 1)
        major == numeric_identifier(SubSeq(core, 1, dot1 - 1))
        minor == numeric_identifier(SubSeq(rest, 1, dot2 - 1))
        patch == numeric_identifier(SubSeq(rest, dot2 + 1, Len(rest)))
    IN  IF \/ (plus # 0 /\ ~build_metadata_ok(build))
           \/ (dash # 0 /\ ~prerelease_ok(pre))
           \/ dot1 = 0
           \/ dot2 = 0
        THEN semver_error
        ELSE IF ~major.ok \/ ~minor.ok \/ ~patch.ok
        THEN semver_error
        ELSE [ok |-> TRUE,
              version |-> [major |-> major.v, minor |-> minor.v, patch |-> patch.v,
                           pre |-> pre, build |-> build]]

\* Ord on integers and on texts (byte by byte)
cmp_int(a, b) == IF a < b THEN "Less" ELSE IF a > b THEN "Greater" ELSE "Equal"
RECURSIVE cmp_text(_, _)
cmp_text(a, b) ==
    IF a = <<>> /\ b = <<>> THEN "Equal"
    ELSE IF a = <<>> THEN "Less"
    ELSE IF b = <<>> THEN "Greater"
    ELSE IF Head(a) # Head(b) THEN cmp_int(char_order(Head(a)), char_order(Head(b)))
    ELSE cmp_text(Tail(a), Tail(b))
\* the loop of Prerelease::cmp over the identifiers of the two sides: two
\* numbers by value (by length, then as text), a number below a text, two
\* texts as text; a list is below a longer one that starts with it
RECURSIVE cmp_identifiers(_, _)
cmp_identifiers(lhs, rhs) ==
    IF lhs = <<>> THEN (IF rhs = <<>> THEN "Equal" ELSE "Less")
    ELSE IF rhs = <<>> THEN "Greater"
    ELSE LET ordering ==
                 IF is_ascii_digit(Head(lhs)) /\ is_ascii_digit(Head(rhs))
                 THEN (IF Len(Head(lhs)) # Len(Head(rhs))
                       THEN cmp_int(Len(Head(lhs)), Len(Head(rhs)))
                       ELSE cmp_text(Head(lhs), Head(rhs)))
                 ELSE IF is_ascii_digit(Head(lhs)) THEN "Less"
                 ELSE IF is_ascii_digit(Head(rhs)) THEN "Greater"
                 ELSE cmp_text(Head(lhs), Head(rhs))
         IN  IF ordering # "Equal" THEN ordering
             ELSE cmp_identifiers(Tail(lhs), Tail(rhs))
\* Prerelease::cmp: a version without pre-release is above the same version
\* with one
cmp_pre(a, b) ==
    IF a = <<>> /\ b = <<>> THEN "Equal"
    ELSE IF a = <<>> THEN "Greater"
    ELSE IF b = <<>> THEN "Less"
    ELSE cmp_identifiers(identifiers(a), identifiers(b))

\* semver::Version::cmp_precedence: build metadata is not compared
cmp_precedence(a, b) ==
    IF a.major # b.major THEN cmp_int(a.major, b.major)
    ELSE IF a.minor # b.minor THEN cmp_int(a.minor, b.minor)
    ELSE IF a.patch # b.patch THEN cmp_int(a.patch, b.patch)
    ELSE cmp_pre(a.pre, b.pre)

\* Result<_, DepError>; name and the versions are those of the variant
dep_ok == [t |-> "Ok", name |-> "", expected |-> semver_error.version,
           actual |-> semver_error.version]
dep_error(t, name, expected, actual) ==
    [t |-> t, name |-> name, expected |-> expected, actual |-> actual]

\* Deps::new: the three texts are parsed, the first failure is returned
Deps_new(axum_version, tonic_version, http_version) ==
    LET axum == Version_parse(axum_version)
        tonic == Version_parse(tonic_version)
        http == Version_parse(http_version)
    IN  IF ~axum.ok \/ ~tonic.ok \/ ~http.ok
        THEN [ok |-> FALSE, deps |-> <<>>,
              err |-> dep_error("VersionParseError", "", semver_error.version,
                                semver_error.version)]
        ELSE [ok |-> TRUE,
              deps |-> <<[name |-> "axum", version |-> axum.version],
                         [name |-> "tonic", version |-> tonic.version],
                         [name |-> "http", version |-> http.version]>>,
              err |-> dep_ok]

\* metadata.packages.iter().find(|pkg| pkg.name == name)
find_package(packages, name) ==
    IF \E i \in 1..Len(packages) : packages[i].name = name
    THEN LET i == CHOOSE i \in 1..Len(packages) :
                      /\ packages[i].name = name
                      /\ \A j \in 1..(i - 1) : packages[j].name # name
         IN  <<packages[i]>>
    ELSE <<>>

\* the `for (name, expected_version) in deps` loop of Deps::validate
RECURSIVE validate_deps(_, _)
validate_deps(deps, packages) ==
    IF deps = <<>> THEN dep_ok
    ELSE LET name == Head(deps).name
             expected_version == Head(deps).version
             found == find_package(packages, name)
         IN  IF found = <<>>
             THEN dep_error("DependencyAbsent", name, semver_error.version,
                            semver_error.version)
             ELSE IF cmp_precedence(expected_version, found[1].version) # "Equal"
             THEN dep_error("DependencyVersionMismatch", name, expected_version,
                            found[1].version)
             ELSE validate_deps(Tail(deps), packages)

\* Deps::validate
validate(deps, metadata) ==
    IF ~metadata.ok
    THEN dep_error("MetadataError", "", semver_error.version, semver_error.version)
    ELSE validate_deps(deps, metadata.packages)

\* Deps::new(..).and_then(Deps::validate)
check_dependencies(ver, metadata) ==
    LET deps == Deps_new(ver.AXUM_VERSION, ver.TONIC_VERSION, ver.HTTP_VERSION)
    IN  IF deps.ok THEN validate(deps.deps, metadata) ELSE deps.err

\* a constructor that gives up on a failed check (no generator)
new_aborting(inner_, env) ==
    LET output_ == check_dependencies(env.ver, env.metadata)
    IN  IF env.validate /\ output_.t # "Ok"
        THEN [generator |-> [t |-> "none"], stderr |-> <<output_>>]
        ELSE [generator |-> [t |-> "BridgeGenerator", inner |-> inner_,
                             enable_string_enums |-> FALSE,
                             file_descriptor_set |-> "None",
                             descriptor_set_path |-> "None"],
              stderr |-> <<>>]

\* BridgeGenerator::new: the generator made, and what eprintln! wrote
new(inner_, env) ==
    LET output_ == check_dependencies(env.ver, env.metadata)
    IN  [generator |-> [t |-> "BridgeGenerator", inner |-> inner_,
                        enable_string_enums |-> FALSE,
                        file_descriptor_set |-> "None",
                        descriptor_set_path |-> "None"],
         stderr |-> IF env.validate /\ output_.t # "Ok" THEN <<output_>> ELSE <<>>]

\* Inputs: the ver module of the crate, and one whose text is no version
ver ==
    [AXUM_VERSION |-> <<"0", ".", "8", ".", "3">>,
     TONIC_VERSION |-> <<"0", ".", "1", "3", ".", "0">>,
     HTTP_VERSION |-> <<"1", ".", "3", ".", "1">>]
VerModules == {ver, [ver EXCEPT !.TONIC_VERSION = <<"0", ".", "1", "3", ".", "x">>]}
\* the versions a package of the name may have in the metadata: the expected
\* one, the expected one with build metadata, a pre-release of it, a later patch
VersionsOf(text) ==
    LET v == Version_parse(text).version
    IN  {v, [v EXCEPT !.build = <<"x">>], [v EXCEPT !.pre = <<"r", "c">>],
         [v EXCEPT !.patch = @ + 1]}
PackagesOf(name, text) ==
    {<<>>} \cup {<<[name |-> name, version |-> v]>> : v \in VersionsOf(text)}
Metadatas ==
    {[ok |-> FALSE, packages |-> <<>>]}
    \cup {[ok |-> TRUE, packages |-> h \o t \o a] :
             h \in PackagesOf("http", ver.HTTP_VERSION),
             t \in PackagesOf("tonic", ver.TONIC_VERSION),
             a \in PackagesOf("axum", ver.AXUM_VERSION)}
Inners == {"tonic_build", "custom"}

InitNew ==
    /\ build_env \in {[t |-> "build", validate |-> f, ver |-> v, metadata |-> m] :
                         f \in BOOLEAN, v \in VerModules, m \in Metadatas}
    /\ created = [t |-> "none"] /\ stderr = <<>>
    /\ NamingIdle /\ GenIdle /\ CodecIdle /\ BuildIdle /\ RouteIdle

New(inner_) ==
    /\ created.t = "none"
    /\ created' = new(inner_, build_env).generator
    /\ stderr' = stderr \o new(inner_, build_env).stderr
    /\ UNCHANGED <<build_env, naming_vars, gen_vars, codec_vars, build_vars, route_vars>>

NextNew == \E inner_ \in Inners : New(inner_)
SpecNew == InitNew /\ [][NextNew]_vars

(***************************************************************************)
(* SpecFunctions: the codec generator applied to lists of bindings.        *)
(***************************************************************************)
MaxBindings == 2     \* most bindings handed to the codec generator

BindingInputs ==
    [field_id : {<<"a", "_", "x">>, <<"a", "_", "b", "_", "x">>},
     enum_path : {<<"E">>, <<"a", ":", ":", "F">>},
     field_label : {"Single", "Option", "Repeated", "Map"},
     src : {0}]
BindingLists == UNION {[1..n -> BindingInputs] : n \in 0..MaxBindings}

InitFunctions ==
    /\ fds_msgs = <<>> /\ fds_fields = <<>> /\ target_package = ""
    /\ enum_fields \in BindingLists /\ functions = <<>> /\ pc = "extracted"
    /\ NamingIdle /\ CodecIdle /\ BuildIdle /\ RouteIdle /\ DepIdle

EmitFunctions ==
    /\ pc = "extracted"
    /\ functions' = generate_field_specific_enum_functions_static(enum_fields)
    /\ pc' = "emitted"
    /\ UNCHANGED <<fds_msgs, fds_fields, target_package, enum_fields,
                   naming_vars, codec_vars, build_vars, route_vars, dep_vars>>

NextFunctions == EmitFunctions
SpecFunctions == InitFunctions /\ [][NextFunctions]_vars


(***************************************************************************)
(* Claims about the extractor (Spec) and the codec generator               *)
(* (SpecFunctions).                                                        *)
(***************************************************************************)
RECURSIVE RootMessage(_)
RootMessage(m) == IF fds_msgs[m].parent = 0 THEN m ELSE RootMessage(fds_msgs[m].parent)
PackageOfField(f) == FilePackages[fds_msgs[RootMessage(fds_fields[f].msg)].file]
TargetEnumFields ==
    {f \in 1..Len(fds_fields) :
        fds_fields[f].type = "Enum" /\ PackageOfField(f) = target_package}
BindingsFor(f) == {i \in 1..Len(enum_fields) : enum_fields[i].src = f}
IsNested(f) == fds_msgs[fds_fields[f].msg].parent # 0

\* C5: within one package two distinct enum-typed fields never get the same
\* field_id.
C5_FieldIdUnique ==
    pc = "generated" =>
        \A i, j \in 1..Len(enum_fields) :
            i # j => enum_fields[i].field_id # enum_fields[j].field_id

\* C7: the extractor returns exactly one binding for every enum-typed field
\* of every message, at any depth, of every file of the target package, and
\* none for any other field.
C7_OneBindingPerEnumField ==
    pc = "generated" =>
        \A f \in 1..Len(fds_fields) :
            Cardinality(BindingsFor(f)) = IF f \in TargetEnumFields THEN 1 ELSE 0

\* the target package has an enum field in a nested message and the set holds
\* a field that is not an enum or not of the package; only the former is bound
C7_Witness ==
    /\ pc = "generated"
    /\ \E f \in TargetEnumFields : IsNested(f) /\ Cardinality(BindingsFor(f)) = 1
    /\ \E f \in 1..Len(fds_fields) : f \notin TargetEnumFields /\ BindingsFor(f) = {}

ExpectedCardinality(label, proto3_optional) ==
    CASE label = "Repeated" -> "Repeated"
      [] label = "Optional" /\ proto3_optional -> "Option"
      [] OTHER -> "Single"

\* C8: a binding's cardinality depends on the field's label and
\* explicit-optional flag only: Repeated gives Repeated, Optional with the
\* flag gives Option, anything else gives Single.
C8_CardinalityFromLabel ==
    /\ pc = "generated" =>
          \A i \in 1..Len(enum_fields) :
              enum_fields[i].field_label =
                  ExpectedCardinality(fds_fields[enum_fields[i].src].label,
                                      fds_fields[enum_fields[i].src].proto3_optional)
    /\ \A label \in {"Optional", "Required", "Repeated"}, flag \in BOOLEAN :
          field_label_of(label, flag) = ExpectedCardinality(label, flag)

\* an explicit-optional field and a repeated field were bound by one extraction
C8_Witness ==
    /\ pc = "generated"
    /\ \E i, j \in 1..Len(enum_fields) :
          /\ fds_fields[enum_fields[i].src].label = "Optional"
          /\ fds_fields[enum_fields[i].src].proto3_optional
          /\ enum_fields[i].field_label = "Option"
          /\ fds_fields[enum_fields[j].src].label = "Repeated"
          /\ enum_fields[j].field_label = "Repeated"

\* The Rust item paths of the enums of the descriptor set, from the crate's
\* proto root: one module per package, one module per message (named by the
\* message's snake-cased name) for what is nested in it.
RECURSIVE ModuleOfMessage(_)
ModuleOfMessage(m) ==
    IF fds_msgs[m].parent = 0
    THEN <<FilePackages[fds_msgs[m].file]>> \o ModSep \o to_snake_case(fds_msgs[m].name)
    ELSE ModuleOfMessage(fds_msgs[m].parent) \o ModSep \o to_snake_case(fds_msgs[m].name)
KnownEnumPaths ==
    UNION {{<<FilePackages[file]>> \o ModSep \o e : e \in FileEnumTypes[file]} :
              file \in 1..Len(FilePackages)}
    \cup {ModuleOfMessage(m) \o ModSep \o e :
              m \in 1..Len(fds_msgs), e \in MessageEnumTypes}
\* what a path written in the enum_deserializer module of a package names:
\* the module has `use super::*`, so the path starts at the package's module
NamedFrom(package, enum_ident) == <<package>> \o ModSep \o enum_ident

\* C20: every codec pair the generator emits for a package names the path of
\* an enum that exists in the descriptor set (a reference that resolves to
\* no such path makes generation fail and emit nothing).
C20_OnlyKnownEnumPaths ==
    pc = "generated" =>
        \A i \in 1..Len(functions) :
            NamedFrom(target_package, functions[i].enum_ident) \in KnownEnumPaths

KnownLabel(b) == b.field_label \in {"Single", "Option", "Repeated"}
NamePrefix(label) ==
    CASE label = "Single" -> <<>>
      [] label = "Option" -> <<"o", "p", "t", "i", "o", "n", "_">>
      [] label = "Repeated" -> <<"r", "e", "p", "e", "a", "t", "e", "d", "_">>
ExpectedSerializeName(b) ==
    <<"s", "e", "r", "i", "a", "l", "i", "z", "e", "_">> \o NamePrefix(b.field_label)
    \o b.field_id \o <<"_", "a", "s", "_", "s", "t", "r", "i", "n", "g">>
ExpectedDeserializeName(b) ==
    <<"d", "e", "s", "e", "r", "i", "a", "l", "i", "z", "e", "_">> \o NamePrefix(b.field_label)
    \o b.field_id \o <<"_", "f", "r", "o", "m", "_", "s", "t", "r", "i", "n", "g">>

\* C6: every binding with a known cardinality gets exactly one function
\* pair, named from its field_id and cardinality alone; a binding with any
\* other label gets nothing.
C6_PairNamedFromIdAndCardinality ==
    pc = "emitted" =>
        LET known == SelectSeq(enum_fields, KnownLabel)
        IN  /\ Len(functions) = 2 * Len(known)
            /\ \A k \in 1..Len(known) :
                  /\ functions[2 * k - 1].role = "serialize"
                  /\ functions[2 * k - 1].name = ExpectedSerializeName(known[k])
                  /\ functions[2 * k].role = "deserialize"
                  /\ functions[2 * k].name = ExpectedDeserializeName(known[k])

\* a binding with an unknown label and an Option binding: one pair is emitted
C6_Witness ==
    /\ pc = "emitted"
    /\ Len(enum_fields) = 2
    /\ enum_fields[1].field_label = "Map"
    /\ enum_fields[2].field_label = "Option"
    /\ enum_fields[2].field_id = <<"a", "_", "x">>
    /\ Len(functions) = 2
    /\ functions[1].name =
          <<"s", "e", "r", "i", "a", "l", "i", "z", "e", "_", "o", "p", "t", "i", "o", "n", "_",
            "a", "_", "x", "_", "a", "s", "_", "s", "t", "r", "i", "n", "g">>


(***************************************************************************)
(* Claims about the configuration (SpecConfig).                            *)
(***************************************************************************)
ConfigOperations ==
    {"build_prost_config", "compile_protos", "compile_protos_with_config",
     "build_prost_config_with_descriptors"}
\* the omission pass ran over the descriptor set
OmissionPassRan ==
    \/ pc = "build_prost_config_with_descriptors"
    \/ pc \in {"compile_protos", "compile_protos_with_config"}
       /\ generator.enable_string_enums
OmissionAttributes == {SKIP_NONE, SKIP_EMPTY}
FieldTypes == {"Enum", "String", "Message", "Int32"}
FieldLabels == {"Optional", "Required", "Repeated"}
ExpectedOmission(type, label, proto3_optional) ==
    CASE proto3_optional \/ (label = "Optional" /\ type = "Message") -> {SKIP_NONE}
      [] ~(proto3_optional \/ (label = "Optional" /\ type = "Message"))
         /\ type = "String" /\ label # "Repeated" -> {SKIP_EMPTY}
      [] OTHER -> {}

\* C11: with the omission pass run, every field of every message has the
\* omit-when-absent attribute exactly if it is explicit-optional or is
\* label-Optional of message type, otherwise the omit-when-empty attribute
\* exactly if it is a non-repeated string, otherwise neither; never both.
C11_OmissionByFieldKind ==
    /\ OmissionPassRan =>
          \A f \in 1..Len(fds_fields) :
              field_attributes(config, fds_msgs, fds_fields, f) \cap OmissionAttributes
                  = ExpectedOmission(fds_fields[f].type, fds_fields[f].label,
                                     fds_fields[f].proto3_optional)
    /\ \A type \in FieldTypes, label \in FieldLabels, flag \in BOOLEAN :
          {skip_attribute([type |-> type, label |-> label, proto3_optional |-> flag])}
              \ {"none"} = ExpectedOmission(type, label, flag)

EnumFields == {f \in 1..Len(fds_fields) : fds_fields[f].type = "Enum"}
OmissionFields ==
    {f \in 1..Len(fds_fields) :
        ExpectedOmission(fds_fields[f].type, fds_fields[f].label,
                         fds_fields[f].proto3_optional) # {}}
\* the fields an enum codec attribute, or an omission attribute, was registered for
RegisteredEnum == {config[i].src : i \in {j \in 1..Len(config) : config[j].attr = "enum_codec"}}
RegisteredOmission ==
    {config[i].src : i \in {j \in 1..Len(config) : config[j].attr \in OmissionAttributes}}

\* C17 as claimed: whichever operation built the configuration, the enum
\* codec attributes and the omission attributes are both registered if
\* enable_string_enums is set and neither is if it is not.
C17_AttributesIffEnabled ==
    pc \in ConfigOperations =>
        IF generator.enable_string_enums
        THEN RegisteredEnum = EnumFields /\ RegisteredOmission = OmissionFields
        ELSE RegisteredEnum = {} /\ RegisteredOmission = {}

\* C17: compile_protos and compile_protos_with_config register the enum
\* codec attributes and the omission attributes if enable_string_enums is set
\* and neither if it is not; build_prost_config registers neither whatever
\* the option; EnumConfig::build_prost_config_with_descriptors registers the
\* enum codec attributes exactly if the option is set and the omission
\* attributes always.
C17_AttributesByOperation ==
    /\ pc \in {"compile_protos", "compile_protos_with_config"} =>
          IF generator.enable_string_enums
          THEN RegisteredEnum = EnumFields /\ RegisteredOmission = OmissionFields
          ELSE RegisteredEnum = {} /\ RegisteredOmission = {}
    /\ pc = "build_prost_config" => RegisteredEnum = {} /\ RegisteredOmission = {}
    /\ pc = "build_prost_config_with_descriptors" =>
          /\ RegisteredOmission = OmissionFields
          /\ RegisteredEnum = IF generator.enable_string_enums THEN EnumFields ELSE {}

\* the option is off, the set has an enum field and a field to annotate, and
\* build_prost_config_with_descriptors registered the omission attribute alone
C17_Witness ==
    /\ pc = "build_prost_config_with_descriptors"
    /\ ~generator.enable_string_enums
    /\ EnumFields # {} /\ OmissionFields # {}
    /\ RegisteredOmission = OmissionFields
    /\ RegisteredEnum = {}


(***************************************************************************)
(* Claims about the service generator (SpecService).                       *)
(***************************************************************************)
FragmentsOf(package, kind) ==
    {i \in 1..Len(bufs[package]) : bufs[package][i].kind = kind}
\* the route path the spec gives a method: '/' package '.' service '/' method
ExpectedRoutePath(service, k) ==
    <<"/">> \o <<service.package>> \o <<".">> \o service.proto_name
    \o <<"/">> \o service.methods[k].proto_name

\* C12: the router function emitted for a service registers one POST-only
\* route per method of the service, in declaration order, at the path
\* '/' + package + '.' + service proto name + '/' + method proto name, and
\* no other route.
C12_OneRoutePerMethod ==
    \A package \in Packages : \A i \in FragmentsOf(package, "router") :
        LET fn == bufs[package][i]
            service == Services[fn.src]
        IN  /\ service.package = package
            /\ Len(fn.routes) = Len(service.methods)
            /\ \A k \in 1..Len(fn.routes) :
                  /\ fn.routes[k].path = ExpectedRoutePath(service, k)
                  /\ fn.routes[k].method_filter = "POST"
                  /\ fn.routes[k].func_name = service.methods[k].name

\* the router functions of a two-method service and of a service without
\* methods were emitted
C12_Witness ==
    /\ \E i \in FragmentsOf("p", "router") :
          /\ bufs["p"][i].src = 1
          /\ Len(bufs["p"][i].routes) = 2
          /\ bufs["p"][i].routes[2].path =
                 <<"/", "p", ".", "G", "r", "e", "e", "t", "e", "r", "/",
                   "S", "a", "y", "B", "y", "e">>
    /\ \E i \in FragmentsOf("q", "router") : bufs["q"][i].routes = <<>>

\* C15: the buffer of a package holds the error envelope types once after
\* its finalize_package call and not at all before it, whatever generate
\* calls were made for the package.
C15_ErrorTypesOncePerPackage ==
    \A package \in Packages :
        Cardinality(FragmentsOf(package, "error_structs"))
            = IF package \in finalized THEN 1 ELSE 0

\* two services were generated into a package that is not finalized yet,
\* and another package was finalized with no service at all
C15_Witness ==
    /\ Cardinality(FragmentsOf("p", "router")) = 2
    /\ "p" \notin finalized
    /\ FragmentsOf("p", "error_structs") = {}
    /\ "q" \in finalized
    /\ FragmentsOf("q", "router") = {}
    /\ Cardinality(FragmentsOf("q", "error_structs")) = 1

\* the snake-cased names of the messages from the top-level one down to m
RECURSIVE MessagePath(_)
MessagePath(m) ==
    IF fds_msgs[m].parent = 0 THEN to_snake_case(fds_msgs[m].name)
    ELSE MessagePath(fds_msgs[m].parent) \o <<"_">> \o to_snake_case(fds_msgs[m].name)
EnumFieldsOf(package) ==
    {f \in 1..Len(fds_fields) : fds_fields[f].type = "Enum" /\ PackageOfField(f) = package}
\* the binding the spec gives field f
ExpectedBinding(f) ==
    [field_id |-> MessagePath(fds_fields[f].msg) \o <<"_">> \o to_snake_case(fds_fields[f].name),
     field_label |-> ExpectedCardinality(fds_fields[f].label, fds_fields[f].proto3_optional)]
\* functions 2k-1 and 2k of a module are the pair of field f
IsPairOf(fns, k, f) ==
    /\ fns[2 * k - 1].role = "serialize"
    /\ fns[2 * k - 1].name = ExpectedSerializeName(ExpectedBinding(f))
    /\ fns[2 * k].role = "deserialize"
    /\ fns[2 * k].name = ExpectedDeserializeName(ExpectedBinding(f))

\* C16: a finalized package's buffer has an enum_deserializer module only if
\* string enums were requested; the module then holds the function pair of
\* every enum field of the package and of no field of another package; a
\* package without enum fields gets no module.
C16_ModuleOfOwnPackage ==
    \A package \in Packages :
        /\ Cardinality(FragmentsOf(package, "enum_deserializer")) <= 1
        /\ FragmentsOf(package, "enum_deserializer") # {} =>
              /\ package \in finalized
              /\ generator.enable_string_enums
              /\ EnumFieldsOf(package) # {}
        /\ \A i \in FragmentsOf(package, "enum_deserializer") :
              LET fns == bufs[package][i].functions
              IN  /\ Len(fns) = 2 * Cardinality(EnumFieldsOf(package))
                  /\ \A f \in EnumFieldsOf(package) :
                        \E k \in 1..(Len(fns) \div 2) : IsPairOf(fns, k, f)
                  /\ \A k \in 1..(Len(fns) \div 2) :
                        \E f \in EnumFieldsOf(package) : IsPairOf(fns, k, f)

\* both packages have enum fields and were finalized with string enums on:
\* each got a module, with one pair in q's and two in p's
C16_Witness ==
    /\ finalized = {"p", "q"}
    /\ generator.enable_string_enums
    /\ \E i \in FragmentsOf("q", "enum_deserializer") : Len(bufs["q"][i].functions) = 2
    /\ \E i \in FragmentsOf("p", "enum_deserializer") : Len(bufs["p"][i].functions) = 4


\* the names of the generic codec: its functions and its macros
GenericCodecFunctions ==
    {<<"s", "e", "r", "i", "a", "l", "i", "z", "e", "_", "e", "n", "u", "m", "_", "a", "s", "_", "s", "t", "r", "i", "n", "g">>,
     <<"d", "e", "s", "e", "r", "i", "a", "l", "i", "z", "e", "_", "e", "n", "u", "m", "_", "f", "r", "o", "m", "_", "s", "t", "r", "i", "n", "g">>,
     <<"s", "e", "r", "i", "a", "l", "i", "z", "e", "_", "o", "p", "t", "i", "o", "n", "_", "e", "n", "u", "m", "_", "a", "s", "_", "s", "t", "r", "i", "n", "g">>,
     <<"d", "e", "s", "e", "r", "i", "a", "l", "i", "z", "e", "_", "o", "p", "t", "i", "o", "n", "_", "e", "n", "u", "m", "_", "f", "r", "o", "m", "_", "s", "t", "r", "i", "n", "g">>,
     <<"s", "e", "r", "i", "a", "l", "i", "z", "e", "_", "r", "e", "p", "e", "a", "t", "e", "d", "_", "e", "n", "u", "m", "_", "a", "s", "_", "s", "t", "r", "i", "n", "g">>,
     <<"d", "e", "s", "e", "r", "i", "a", "l", "i", "z", "e", "_", "r", "e", "p", "e", "a", "t", "e", "d", "_", "e", "n", "u", "m", "_", "f", "r", "o", "m", "_", "s", "t", "r", "i", "n", "g">>}
GenericCodecMacros ==
    {<<"t", "r", "y", "_", "s", "e", "r", "i", "a", "l", "i", "z", "e", "_", "a", "l", "l", "_", "e", "n", "u", "m", "s">>,
     <<"t", "r", "y", "_", "p", "a", "r", "s", "e", "_", "a", "l", "l", "_", "e", "n", "u", "m", "s">>}
\* the function names a fragment defines, and the names it invokes that
\* come from the descriptors
DefinedNames(fragment) ==
    IF fragment.kind = "router" THEN {fragment.service_name}
    ELSE IF fragment.kind = "enum_deserializer"
    THEN {fragment.functions[k].name : k \in 1..Len(fragment.functions)}
    ELSE {}
InvokedNames(fragment) ==
    IF fragment.kind = "router"
    THEN {fragment.routes[k].func_name : k \in 1..Len(fragment.routes)}
    ELSE {}
AllFragments == UNION {{bufs[package][i] : i \in 1..Len(bufs[package])} : package \in Packages}

\* the enum path a field-specific function of field f consults: the one its
\* type name resolves to
EnumPathOf(f) == resolve_enum_path(trim_start_matches(fds_fields[f].type_name, "."))

\* C22: no fragment appended to a package's buffer defines or invokes the
\* generic try-every-enum codec: no fragment defines one of its macros or
\* invokes one of its names, and every function of an enum_deserializer
\* module, whatever its name, is the serializer or deserializer of one enum
\* field of the package, named from that field's id and cardinality and
\* consulting the one enum path of that field.
C22_NoGenericCodec ==
    \A package \in Packages : \A i \in 1..Len(bufs[package]) :
        LET fragment == bufs[package][i]
        IN  /\ DefinedNames(fragment) \cap GenericCodecMacros = {}
            /\ InvokedNames(fragment) \cap (GenericCodecFunctions \cup GenericCodecMacros) = {}
            /\ fragment.kind = "router" =>
                  fragment.service_name \notin GenericCodecFunctions
            /\ fragment.kind = "enum_deserializer" =>
                  \A k \in 1..Len(fragment.functions) :
                      LET fn == fragment.functions[k]
                      IN  \E f \in EnumFieldsOf(package) :
                            /\ fn.name \in {ExpectedSerializeName(ExpectedBinding(f)),
                                            ExpectedDeserializeName(ExpectedBinding(f))}
                            /\ fn.cardinality = ExpectedBinding(f).field_label
                            /\ fn.enum_ident = EnumPathOf(f)

\* message Option { E enum; }: the package's module defines the Single pair
\* of the field, which bears the names serialize_option_enum_as_string and
\* deserialize_option_enum_from_string and consults E alone; a router of the
\* package invokes its two handler methods
C22_Witness ==
    /\ "p" \in finalized
    /\ \E i \in FragmentsOf("p", "enum_deserializer") :
          /\ Len(bufs["p"][i].functions) = 2
          /\ bufs["p"][i].functions[1].name \in GenericCodecFunctions
          /\ bufs["p"][i].functions[1].cardinality = "Single"
          /\ bufs["p"][i].functions[1].enum_ident = <<"E">>
          /\ bufs["p"][i].functions[2].name \in GenericCodecFunctions
    /\ \E i \in FragmentsOf("p", "router") : Len(bufs["p"][i].routes) = 2

(***************************************************************************)
(* Claims about the two descriptor traversals (SpecConfig).                *)
(***************************************************************************)
CompileOperations == {"compile_protos", "compile_protos_with_config"}
\* the functions of the enum_deserializer module of a package's buffer
ModuleFunctions(package) ==
    IF FragmentsOf(package, "enum_deserializer") = {} THEN <<>>
    ELSE bufs[package][CHOOSE i \in FragmentsOf(package, "enum_deserializer") : TRUE].functions
\* a function path of a serde attribute without its module prefix
FunctionOf(function_path, f) ==
    SubSeq(function_path, Len(enum_deserializer_path(IsNested(f)) \o ModSep) + 1,
           Len(function_path))
EnumRegistrations == {i \in 1..Len(config) : config[i].attr = "enum_codec"}

\* C26: after a compile with string enums, every enum-typed field has one
\* enum codec registration computed for it, and the function names in that
\* registration are the names of the pair the codec generator emitted for
\* the field's binding.
C26_TraversalsAgree ==
    (pc \in CompileOperations /\ generator.enable_string_enums) =>
        /\ {config[i].src : i \in EnumRegistrations} = EnumFields
        /\ Cardinality(EnumRegistrations) = Cardinality(EnumFields)
        /\ \A package \in Packages :
              LET bindings == extract_package_enum_fields_static(fds_msgs, fds_fields, package)
                  fns == ModuleFunctions(package)
              IN  /\ Len(fns) = 2 * Len(bindings)
                  /\ {bindings[k].src : k \in 1..Len(bindings)} = EnumFieldsOf(package)
                  /\ \A k \in 1..Len(bindings) : \A i \in EnumRegistrations :
                        config[i].src = bindings[k].src =>
                            /\ fns[2 * k - 1].role = "serialize"
                            /\ fns[2 * k - 1].name
                                  = FunctionOf(config[i].serialize_with, config[i].src)
                            /\ fns[2 * k].role = "deserialize"
                            /\ fns[2 * k].name
                                  = FunctionOf(config[i].deserialize_with, config[i].src)

\* message A { message B { optional F x; } } was compiled with string enums:
\* the attribute of x names super::enum_deserializer::serialize_option_a_b_x_as_string
C26_Witness ==
    /\ pc = "compile_protos" /\ generator.enable_string_enums
    /\ \E i \in EnumRegistrations :
          /\ IsNested(config[i].src)
          /\ fds_fields[config[i].src].proto3_optional
          /\ config[i].serialize_with =
                 <<"super">> \o ModSep \o <<"enum_deserializer">> \o ModSep
                 \o <<"s", "e", "r", "i", "a", "l", "i", "z", "e", "_", "o", "p", "t", "i", "o", "n", "_", "a", "_", "b", "_", "x", "_", "a", "s", "_", "s", "t", "r", "i", "n", "g">>
          /\ \E k \in 1..Len(ModuleFunctions("p")) :
                ModuleFunctions("p")[k].name = FunctionOf(config[i].serialize_with, config[i].src)

(***************************************************************************)
(* Claims about a build over the example descriptor sets (SpecBuild).      *)
(***************************************************************************)
\* the modules, below the package's, in which the type of message m is
\* generated: one per enclosing message, outermost first
RECURSIVE EnclosingModules(_)
EnclosingModules(m) ==
    IF fds_msgs[m].parent = 0 THEN <<>>
    ELSE Append(EnclosingModules(fds_msgs[m].parent),
                to_snake_case(fds_msgs[fds_msgs[m].parent].name))
\* the module, below the package's, that holds what a function path names
\* when the path is written in module `from`: `super` is the parent module
ResolvedModule(from, function_path) ==
    IF function_path[1] = "super" THEN SubSeq(from, 1, Len(from) - 1) ELSE from

\* C27: the module prefix of every enum codec attribute, read from the
\* module of the field's message type, names the enum_deserializer module
\* of the package.
C27_PrefixNamesPackageModule ==
    \A i \in EnumRegistrations :
        LET from == EnclosingModules(fds_fields[config[i].src].msg)
        IN  /\ config[i].serialize_with[1] = "super" => from # <<>>
            /\ ResolvedModule(from, config[i].serialize_with) = <<>>
            /\ ResolvedModule(from, config[i].deserialize_with) = <<>>

\* C29: when a package was compiled with a configuration whose enum codec
\* attributes reference functions for fields of the package, the package's
\* buffer has an enum_deserializer module that defines every one of them.
C29_ReferencedFunctionsAreDefined ==
    \A package \in finalized : \A i \in EnumRegistrations :
        PackageOfField(config[i].src) = package =>
            LET fns == ModuleFunctions(package)
            IN  /\ \E k \in 1..Len(fns) :
                      fns[k].name = FunctionOf(config[i].serialize_with, config[i].src)
                /\ \E k \in 1..Len(fns) :
                      fns[k].name = FunctionOf(config[i].deserialize_with, config[i].src)

\* the path, from the package's module, of the enum a type name refers to,
\* when the enum is declared in `package`: the snake-cased names of the
\* messages that enclose the declaration, then the enum name
DeclaredEnumPaths(package, type_name) ==
    {e : e \in {d \in UNION {FileEnumTypes[file] :
                               file \in {g \in 1..Len(FilePackages) : FilePackages[g] = package}} :
                   type_name = <<".", package, ".">> \o d}}
    \cup {join(Append(EnclosingModules(m), to_snake_case(fds_msgs[m].name)), ModSep)
             \o ModSep \o e :
            m \in {n \in 1..Len(fds_msgs) :
                     /\ FilePackages[fds_msgs[RootMessage(n)].file] = package
                     /\ \E d \in MessageEnumTypes :
                           type_name = full_name(fds_msgs, n) \o <<".">> \o d},
            e \in {d \in MessageEnumTypes :
                     \E n \in 1..Len(fds_msgs) :
                         type_name = full_name(fds_msgs, n) \o <<".">> \o d}}

\* C30: for a field whose enum is declared in the package of the field's
\* message, the enum path of the field's binding is the path of the
\* declaration: the snake-cased enclosing messages joined by '::', then the
\* enum name.
C30_EnumPathIsDeclarationPath ==
    pc = "generated" =>
        \A k \in 1..Len(enum_fields) :
            LET declared == DeclaredEnumPaths(target_package,
                                              fds_fields[enum_fields[k].src].type_name)
            IN  declared # {} => enum_fields[k].enum_path \in declared

(***************************************************************************)
(* More claims about the two descriptor traversals (SpecConfig).           *)
(***************************************************************************)
\* the registrations of the configuration whose key matches field f
RegistrationsOn(f) ==
    {i \in 1..Len(config) :
        config[i].kind = "field" /\ path_matches(config[i].path, fds_msgs, fds_fields, f)}

\* C28: the key of an enum codec attribute or of an omission attribute
\* selects the field it was computed for: a field receives no attribute that
\* was computed for another field, and at most one enum codec attribute.
C28_KeySelectsItsField ==
    \A f \in 1..Len(fds_fields) :
        /\ \A i \in RegistrationsOn(f) : config[i].src # 0 => config[i].src = f
        /\ Cardinality(RegistrationsOn(f) \cap EnumRegistrations) <= 1

(***************************************************************************)
(* Claims about the routes (SpecRoute).                                    *)
(***************************************************************************)
\* the table of the spec: RPC status code -> HTTP status
ExpectedHttpStatus ==
    "Ok" :> 200 @@ "InvalidArgument" :> 400 @@ "NotFound" :> 404
    @@ "AlreadyExists" :> 409 @@ "Aborted" :> 409 @@ "PermissionDenied" :> 403
    @@ "Unauthenticated" :> 401 @@ "ResourceExhausted" :> 429
    @@ "FailedPrecondition" :> 412 @@ "Unimplemented" :> 501 @@ "Unavailable" :> 503
    @@ "DeadlineExceeded" :> 408 @@ "Cancelled" :> 408 @@ "OutOfRange" :> 416
    @@ "Unknown" :> 500 @@ "Internal" :> 500 @@ "DataLoss" :> 500
HandlerFailed == rpc = "done" /\ output.t = "Err"

\* C13: the translation gives every RPC status code an HTTP status, the one
\* of the table, and a route answers a failed call with that status.
C13_StatusTable ==
    /\ DOMAIN ExpectedHttpStatus = Codes
    /\ \A code \in Codes : status_code(code) = ExpectedHttpStatus[code]
    /\ HandlerFailed => response.status = ExpectedHttpStatus[output.status.code]

\* a call failed with Aborted, the second code of an `|` pattern, and the
\* route answered 409
C13_Witness ==
    /\ HandlerFailed
    /\ output.status.code = "Aborted"
    /\ response.status = 409

\* the RPC status code a text written by tonic stands for
CodeWritten(text) == {code \in Codes : code_to_string(code) = text}

\* C14: when the handler method returns an RPC status, the route itself
\* answers: with the HTTP status of the table and a JSON body of the shape
\* {error: {code, message}} that carries the status's code and message.
C14_FailureIsEnveloped ==
    HandlerFailed =>
        /\ response.t = "route"
        /\ response.status = ExpectedHttpStatus[output.status.code]
        /\ response.body.t = "json"
        /\ DOMAIN response.body.v = {"error"}
        /\ DOMAIN response.body.v.error = {"code", "message"}
        /\ CodeWritten(response.body.v.error.code) = {output.status.code}
        /\ response.body.v.error.message = output.status.message

\* a call failed with NotFound and a message: 404 and the envelope
C14_Witness ==
    /\ HandlerFailed
    /\ output.status = [code |-> "NotFound", message |-> "receipt must be unique"]
    /\ response.status = 404
    /\ response.body.v.error.message = "receipt must be unique"


(***************************************************************************)
(* More claims about the codec module of a package (Spec).                 *)
(***************************************************************************)
\* C25: the functions emitted into the enum_deserializer module of a package
\* have pairwise distinct names.
C25_FunctionNamesDistinct ==
    pc = "generated" =>
        \A i, j \in 1..Len(functions) : i # j => functions[i].name # functions[j].name

(***************************************************************************)
(* More claims about the naming resolver (SpecNaming).                     *)
(***************************************************************************)
\* C24: for every dotted type reference the generator's resolve_enum_path
\* returns the path that the resolver of g2h_internals_tests.rs returns.
C24_TestResolverAgrees ==
    n_op = "resolve_enum_path" => n_out = g2h_tests_resolve_enum_path(n_in)

(***************************************************************************)
(* More claims about the emitted codecs (SpecCodec).                       *)
(***************************************************************************)
\* C23: the Repeated serializer writes an array as long as the sequence
\* whose element i is what the Single serializer of the same enum writes
\* for element i of the sequence.
C23_RepeatedIsSingleElementwise ==
    (cpc = "serialized" /\ binding.cardinality = "Repeated") =>
        /\ wire.t = "array"
        /\ Len(wire.items) = Len(value.items)
        /\ \A i \in 1..Len(value.items) :
              wire.items[i] = serialize_single(binding.enum_type, value.items[i])

(***************************************************************************)
(* Claims about BridgeGenerator::new (SpecNew).                            *)
(***************************************************************************)
NewReturned == created.t # "none" \/ stderr # <<>>
CheckOutcomes ==
    {"Ok", "DependencyAbsent", "DependencyVersionMismatch", "MetadataError",
     "VersionParseError"}

\* C21: whatever the dependency check finds, BridgeGenerator::new returns a
\* generator with string enums off, no descriptor set and no descriptor
\* path; a failed check only adds one line to standard error.
C21_ValidationIsAdvisory ==
    NewReturned =>
        /\ created.t = "BridgeGenerator"
        /\ created.inner \in Inners
        /\ created.enable_string_enums = FALSE
        /\ created.file_descriptor_set = "None"
        /\ created.descriptor_set_path = "None"
        /\ Len(stderr) <= 1
        /\ \A i \in 1..Len(stderr) :
              /\ build_env.validate
              /\ stderr[i].t \in CheckOutcomes \ {"Ok"}

\* the metadata has tonic as a pre-release of the expected version: the
\* mismatch is reported and the generator is returned
C21_Witness ==
    /\ created.t = "BridgeGenerator"
    /\ Len(stderr) = 1
    /\ stderr[1].t = "DependencyVersionMismatch"
    /\ stderr[1].name = "tonic"
    /\ stderr[1].actual.pre = <<"r", "c">>

=============================================================================
